---- MODULE Spec2Model ----
(***************************************************************************)
(* A model of rotkehlchen/accounting/accountant.py: the Accountant and its *)
(* process_history / process_action pass over a user's action history.     *)
(*                                                                         *)
(* Amounts are FVal decimals in the source; the model draws them from      *)
(* small integers.  Gas is drawn in multiples of 10^9: gas_used is counted *)
(* in units of 10^9 gas and gas_price in Gwei, so gas_used * gas_price /   *)
(* 10^18 of the source is the exact product of the two model numbers.      *)
(***************************************************************************)
EXTENDS Integers, Sequences, FiniteSets, TLC

\* ------------------------------------------------------------------ bounds

\* Longest action history handed to one process_history call.
MaxActions == 3
\* Largest timestamp of an action; timestamps are 0..MaxTs.
MaxTs == 2
\* Number of process_history calls made on the one Accountant.
MaxRuns == 2

\* --------------------------------------------------------- program constants

\* self.last_gas_price = 2000000000 (wei), i.e. 2 Gwei.
DefaultGasPrice == 2
\* transaction.gas_price == -1: the gas price is unavailable.
NoGasPrice == -1
\* settings.taxfree_after_period == -1: the user disabled the tax-free period.
TaxfreeDisabled == -1
\* Timestamp(-1): the processing timestamps before the first run.
NotProcessing == -1
\* count % 500 == 0: the loop sleeps on every 500th counted action.  The
\* period is 500 in the code; it is a bound here, so that a pass of MaxActions
\* actions comes round to a second sleep.
YieldEvery == 2
\* A field __init__ does not set (start_ts, eth_transactions_gas_costs).
Absent == -2

\* ------------------------------------------------------------------ assets

A_BTC == "BTC"
A_ETH == "ETH"
A_EUR == "EUR"
A_KFEE == "KFEE"
\* The second asset of an action that has only one.
None == "None"

Timestamps == 0..MaxTs

\* The three recoverable failures of a price lookup, by the exception raised.
PriceErrors == {"PriceQueryUnsupportedAsset", "NoPriceForGivenTimestamp", "RemoteError"}
\* The three failures of action_get_assets, by the exception raised.
AssetErrors == {"UnknownAsset", "UnsupportedAsset", "DeserializationError"}

\* The price resolver's answer for asset -> profit currency at a timestamp,
\* when the lookup succeeds: 1 for the profit currency itself, otherwise a
\* rate that depends on the asset and grows with time.
Rate(asset, profit_currency, timestamp) ==
    IF asset = profit_currency THEN 1
    ELSE IF asset = A_BTC THEN 3 + timestamp
    ELSE IF asset = A_ETH THEN 2 + timestamp
    ELSE 1 + timestamp

\* --------------------------------------------------------------- sequences

RECURSIVE SumSeq(_)
SumSeq(s) == IF s = <<>> THEN 0 ELSE Head(s) + SumSeq(Tail(s))

\* All sequences over S of length at most n.
SeqsUpTo(S, n) == UNION {[1..k -> S] : k \in 0..n}

\* str(FVal): the decimal digits of an integer amount, most significant first.
Digit(d) == <<"0", "1", "2", "3", "4", "5", "6", "7", "8", "9">>[d + 1]

RECURSIVE Digits(_)
Digits(n) == IF n < 10 THEN <<Digit(n)>> ELSE Append(Digits(n \div 10), Digit(n % 10))

Str(n) == IF n < 0 THEN <<"-">> \o Digits(0 - n) ELSE Digits(n)

\* FVal(string): the amount a report string denotes.
DigitVal(c) == CHOOSE d \in 0..9 : Digit(d) = c

RECURSIVE DigitsVal(_, _)
DigitsVal(s, acc) == IF s = <<>> THEN acc ELSE DigitsVal(Tail(s), 10 * acc + DigitVal(Head(s)))

Val(s) == IF s # <<>> /\ Head(s) = "-" THEN 0 - DigitsVal(Tail(s), 0) ELSE DigitsVal(s, 0)

\* ----------------------------------------------------------------- actions

\* The kinds action_get_type tells apart.
Kinds == {"trade", "loan", "asset_movement", "margin_position", "ethereum_transaction", "defi_event"}

action_get_timestamp(action) == action.timestamp

action_get_type(action) == action.kind

\* actions.sort(key=action_get_timestamp): Python's sort is stable, so an
\* action goes after every action already placed whose timestamp is <= its own.
\* A sort that is not stable: an action goes before the actions already
\* placed that have its timestamp.
RECURSIVE InsertBeforeEqualTimestamp(_, _)
InsertBeforeEqualTimestamp(sorted, action) ==
    IF sorted = <<>> THEN <<action>>
    ELSE IF action_get_timestamp(sorted[Len(sorted)]) < action_get_timestamp(action)
         THEN Append(sorted, action)
         ELSE Append(InsertBeforeEqualTimestamp(SubSeq(sorted, 1, Len(sorted) - 1), action),
                     sorted[Len(sorted)])

RECURSIVE InsertByTimestamp(_, _)
InsertByTimestamp(sorted, action) ==
    IF sorted = <<>> THEN <<action>>
    ELSE IF action_get_timestamp(sorted[Len(sorted)]) <= action_get_timestamp(action)
         THEN Append(sorted, action)
         ELSE Append(InsertByTimestamp(SubSeq(sorted, 1, Len(sorted) - 1), action),
                     sorted[Len(sorted)])

RECURSIVE SortFrom(_, _)
SortFrom(sorted, rest) ==
    IF rest = <<>> THEN sorted
    ELSE SortFrom(InsertByTimestamp(sorted, Head(rest)), Tail(rest))

\* A sort in descending order.
SortByTimestampDescending(actions) ==
    LET ascending == SortFrom(<<>>, actions)
    IN [k \in 1..Len(ascending) |-> ascending[Len(ascending) + 1 - k]]

\* A sort that was dropped: the concatenation as it is.
SortByTimestampUnsorted(actions) == actions

SortByTimestamp(actions) == SortFrom(<<>>, actions)

\* ------------------------------------------------------------------ ledger
\* TaxableEvents (self.events), the per-asset FIFO lot tracker and its running
\* totals, and CSVExporter (self.csvexporter), the audit trail.  Their code is
\* not part of accountant.py; they are modelled from the specification.

\* A buy lot: an amount of an asset, the rate it was acquired at, and when.
Lot(amount, rate, timestamp) == [amount |-> amount, rate |-> rate, timestamp |-> timestamp]

\* TaxableEvents(csvexporter, profit_currency) as constructed.
NewEvents(profit_currency) ==
    [events |-> <<>>,
     general_trade_profit_loss |-> 0,
     taxable_trade_profit_loss |-> 0,
     loan_profit |-> 0,
     margin_positions_profit_loss |-> 0,
     defi_profit_loss |-> 0,
     settlement_losses |-> 0,
     include_crypto2crypto |-> TRUE,
     taxfree_after_period |-> {},
     account_for_assets_movements |-> TRUE,
     profit_currency |-> profit_currency]

\* events.reset(start_ts, end_ts): the lots and the totals start over; the
\* policy fields stay as the last _customize left them.
EventsReset(ev) ==
    [ev EXCEPT !.events = <<>>,
               !.general_trade_profit_loss = 0,
               !.taxable_trade_profit_loss = 0,
               !.loan_profit = 0,
               !.margin_positions_profit_loss = 0,
               !.defi_profit_loss = 0,
               !.settlement_losses = 0]

\* The buy queue of an asset; empty for an asset the ledger has not seen.
Buys(ev, asset) == IF asset \in DOMAIN ev.events THEN ev.events[asset].buys ELSE <<>>

SetBuys(ev, asset, buys) ==
    [ev EXCEPT !.events =
        [a \in DOMAIN ev.events \cup {asset} |->
            IF a = asset THEN [buys |-> buys] ELSE ev.events[a]]]

\* A buy lot joins the end of its asset's queue.
AddBuy(ev, asset, amount, rate, timestamp) ==
    SetBuys(ev, asset, Append(Buys(ev, asset), Lot(amount, rate, timestamp)))

\* Whether a portion matched against a lot acquired at bought_ts and disposed
\* of at sold_ts is tax free: the lot is older than the tax-free period.
IsTaxfree(period, bought_ts, sold_ts) ==
    \E p \in period : bought_ts + p < sold_ts

\* FIFO matching of a disposal of `amount` against a buy queue: the oldest
\* lots are consumed first, a lot consumed in part keeps its remainder at the
\* head of the queue, and what no lot covers has a cost basis of 0 and is
\* taxable.  Gives the remaining queue, the cost basis of the taxable and of
\* the tax-free portions, and the taxable amount.
\* A matching that takes the newest lot first.
RECURSIVE ConsumeLotsNewestFirst(_, _, _, _)
ConsumeLotsNewestFirst(buys, amount, sold_ts, period) ==
    IF amount = 0
    THEN [buys |-> buys, taxable_cost |-> 0, taxfree_cost |-> 0, taxable_amount |-> 0]
    ELSE IF buys = <<>>
    THEN [buys |-> buys, taxable_cost |-> 0, taxfree_cost |-> 0, taxable_amount |-> amount]
    ELSE LET lot == buys[Len(buys)]
             front == SubSeq(buys, 1, Len(buys) - 1)
             used == IF lot.amount <= amount THEN lot.amount ELSE amount
             free == IsTaxfree(period, lot.timestamp, sold_ts)
             rest == IF lot.amount <= amount
                     THEN ConsumeLotsNewestFirst(front, amount - used, sold_ts, period)
                     ELSE [buys |-> Append(front, [lot EXCEPT !.amount = lot.amount - amount]),
                           taxable_cost |-> 0, taxfree_cost |-> 0, taxable_amount |-> 0]
         IN [buys |-> rest.buys,
             taxable_cost |-> rest.taxable_cost + (IF free THEN 0 ELSE used * lot.rate),
             taxfree_cost |-> rest.taxfree_cost + (IF free THEN used * lot.rate ELSE 0),
             taxable_amount |-> rest.taxable_amount + (IF free THEN 0 ELSE used)]

RECURSIVE ConsumeLots(_, _, _, _)
ConsumeLots(buys, amount, sold_ts, period) ==
    IF amount = 0
    THEN [buys |-> buys, taxable_cost |-> 0, taxfree_cost |-> 0, taxable_amount |-> 0]
    ELSE IF buys = <<>>
    THEN [buys |-> buys, taxable_cost |-> 0, taxfree_cost |-> 0, taxable_amount |-> amount]
    ELSE LET lot == Head(buys)
             used == IF lot.amount <= amount THEN lot.amount ELSE amount
             left == IF lot.amount <= amount
                     THEN Tail(buys)
                     ELSE <<[lot EXCEPT !.amount = lot.amount - amount]>> \o Tail(buys)
             free == IsTaxfree(period, lot.timestamp, sold_ts)
             rest == IF lot.amount <= amount
                     THEN ConsumeLots(Tail(buys), amount - used, sold_ts, period)
                     ELSE [buys |-> left, taxable_cost |-> 0, taxfree_cost |-> 0,
                           taxable_amount |-> 0]
         IN [buys |-> rest.buys,
             taxable_cost |-> rest.taxable_cost + (IF free THEN 0 ELSE used * lot.rate),
             taxfree_cost |-> rest.taxfree_cost + (IF free THEN used * lot.rate ELSE 0),
             taxable_amount |-> rest.taxable_amount + (IF free THEN 0 ELSE used)]

\* events.add_sell: the disposal of selling_amount of selling_asset.  A loan
\* settlement is charged, gain and fee, to settlement_losses; any other sale
\* realizes gain - cost basis - fee in the general total and, for its taxable
\* portion, in the taxable total (not at all there when it is a trade between
\* two assets other than the profit currency and crypto-to-crypto is off).
EventsAddSell(ev, selling_asset, selling_amount, receiving_asset, gain, fee, rate_in_profit_currency, timestamp, loan_settlement) ==
    LET m == ConsumeLots(Buys(ev, selling_asset), selling_amount, timestamp,
                         ev.taxfree_after_period)
        ev1 == SetBuys(ev, selling_asset, m.buys)
        general == gain - (m.taxable_cost + m.taxfree_cost) - fee
        taxable == rate_in_profit_currency * m.taxable_amount - m.taxable_cost - fee
        crypto2crypto == receiving_asset # None /\ receiving_asset # ev.profit_currency
                         /\ selling_asset # ev.profit_currency
    IN IF loan_settlement
       THEN [ev1 EXCEPT !.settlement_losses = @ + gain + fee]
       ELSE [ev1 EXCEPT !.general_trade_profit_loss = @ + general,
                        !.taxable_trade_profit_loss =
                            IF crypto2crypto /\ ~ev.include_crypto2crypto
                            THEN @ ELSE @ + taxable]

\* events.add_sell_and_corresponding_buy: a plain sale, and the buy lot of
\* the asset received for it.
EventsAddSellAndCorrespondingBuy(ev, selling_asset, selling_amount, receiving_asset, receiving_amount, gain, fee, rate_in_profit_currency, receiving_rate, timestamp) ==
    AddBuy(EventsAddSell(ev, selling_asset, selling_amount, receiving_asset, gain, fee,
                         rate_in_profit_currency, timestamp, FALSE),
           receiving_asset, receiving_amount, receiving_rate, timestamp)

\* events.add_buy_and_corresponding_sell: the buy lot of the acquired asset
\* at (paid-with asset's rate) x trade_rate, and the disposal of
\* trade_rate x amount of the asset paid with; paying with the profit
\* currency disposes of nothing.
EventsAddBuyAndCorrespondingSell(ev, bought_asset, bought_amount, paid_with_asset, trade_rate, fee, timestamp) ==
    LET paid_rate == Rate(paid_with_asset, ev.profit_currency, timestamp)
        ev1 == AddBuy(ev, bought_asset, bought_amount, paid_rate * trade_rate, timestamp)
    IN IF paid_with_asset = ev.profit_currency
       THEN ev1
       ELSE EventsAddSell(ev1, paid_with_asset, bought_amount * trade_rate, bought_asset,
                          paid_rate * trade_rate * bought_amount, fee, paid_rate,
                          timestamp, FALSE)

\* events.add_loan_gain: what the loan earned less its fee, valued at close_time.
EventsAddLoanGain(ev, gained_asset, gained_amount, fee_in_asset, close_time) ==
    [ev EXCEPT !.loan_profit =
        @ + (gained_amount - fee_in_asset) * Rate(gained_asset, ev.profit_currency, close_time)]

\* events.add_margin_position: the position carries its own profit/loss.
EventsAddMarginPosition(ev, margin) ==
    [ev EXCEPT !.margin_positions_profit_loss = @ + margin.pl]

\* events.add_defi_event: the event carries its own profit/loss.
EventsAddDefiEvent(ev, event) ==
    [ev EXCEPT !.defi_profit_loss = @ + event.pl]

\* One record of the audit trail (csvexporter.all_events).
AuditRecord(type, timestamp, amount, rate) ==
    [type |-> type, timestamp |-> timestamp, amount |-> amount, rate |-> rate]

\* -------------------------------------------------------------- Accountant
\* The Accountant object is the record `self`; an operation that may raise
\* gives the object as the raise leaves it and the exception raised ("none"
\* when it returned).

NoRaise == "none"

Returned(s) == [self |-> s, raised |-> NoRaise]

Raised(s, exception) == [self |-> s, raised |-> exception]

\* Accountant.__init__
NewAccountant(main_currency) ==
    [events |-> NewEvents(main_currency),
     csvexporter |-> [all_events |-> <<>>],
     msg_aggregator |-> <<>>,
     asset_movement_fees |-> 0,
     last_gas_price |-> 0,
     started_processing_timestamp |-> NotProcessing,
     currently_processing_timestamp |-> NotProcessing,
     eth_transactions_gas_costs |-> Absent,
     start_ts |-> Absent,
     profit_currency |-> None]

\* msg_aggregator.add_warning / add_error
Message(level, about) == [level |-> level, about |-> about]

AddMessage(s, level, about) ==
    [s EXCEPT !.msg_aggregator = Append(@, Message(level, about))]

\* Accountant._customize
\* A tax-free period that keeps the disabling sentinel as a period.
CustomizeKeepingSentinel(s, settings) ==
    [s EXCEPT !.events.include_crypto2crypto = settings.include_crypto2crypto,
              !.events.taxfree_after_period = {settings.taxfree_after_period},
              !.profit_currency = settings.main_currency,
              !.events.profit_currency = settings.main_currency,
              !.events.account_for_assets_movements = settings.account_for_assets_movements]

Customize(s, settings) ==
    [s EXCEPT !.events.include_crypto2crypto = settings.include_crypto2crypto,
              !.events.taxfree_after_period =
                  IF settings.taxfree_after_period = TaxfreeDisabled
                  THEN {} ELSE {settings.taxfree_after_period},
              !.profit_currency = settings.main_currency,
              !.events.profit_currency = settings.main_currency,
              !.events.account_for_assets_movements = settings.account_for_assets_movements]

\* Accountant.get_fee_in_profit_currency, when its price lookup succeeds.
get_fee_in_profit_currency(s, trade) ==
    Rate(trade.fee_currency, s.profit_currency, trade.timestamp) * trade.fee

\* Accountant.add_asset_movement_to_events
\* A transfer accounted whatever its timestamp.
add_asset_movement_ungated(s, movement) ==
    IF movement.asset = A_KFEE \/ ~s.events.account_for_assets_movements
    THEN Returned(s)
    ELSE IF movement.price # "ok"
    THEN Raised(s, movement.price)
    ELSE LET fee_rate == Rate(movement.fee_asset, s.profit_currency, movement.timestamp)
             cost == movement.fee * fee_rate
         IN Returned([s EXCEPT !.asset_movement_fees = @ + cost,
                               !.csvexporter.all_events =
                                   Append(@, AuditRecord("asset_movement", movement.timestamp,
                                                         movement.fee, fee_rate))])

add_asset_movement_to_events(s, movement) ==
    IF movement.timestamp < s.start_ts
    THEN Returned(s)
    ELSE IF movement.asset = A_KFEE \/ ~s.events.account_for_assets_movements
    THEN Returned(s)
    ELSE IF movement.price # "ok"
    THEN Raised(s, movement.price)
    ELSE LET fee_rate == Rate(movement.fee_asset, s.profit_currency, movement.timestamp)
             cost == movement.fee * fee_rate
         IN Returned([s EXCEPT !.asset_movement_fees = @ + cost,
                               !.csvexporter.all_events =
                                   Append(@, AuditRecord("asset_movement", movement.timestamp,
                                                         movement.fee, fee_rate))])

\* Accountant.account_for_gas_costs: the carried-forward gas price is updated
\* before the price lookup, so it stays updated when the lookup raises.
\* A gas price that is carried forward also when gas costs are not accounted.
account_for_gas_costs_recording_first(s, transaction, include_gas_costs) ==
    LET gas_price == IF transaction.gas_price = NoGasPrice
                     THEN s.last_gas_price ELSE transaction.gas_price
        s1 == IF transaction.gas_price = NoGasPrice
              THEN s ELSE [s EXCEPT !.last_gas_price = transaction.gas_price]
    IN IF ~include_gas_costs
       THEN Returned(s1)
       ELSE IF transaction.timestamp < s.start_ts
       THEN Returned(s1)
       ELSE IF transaction.price # "ok"
       THEN Raised(s1, transaction.price)
       ELSE LET rate == Rate(A_ETH, s.profit_currency, transaction.timestamp)
                eth_burned_as_gas == transaction.gas_used * gas_price
                cost == eth_burned_as_gas * rate
            IN Returned([s1 EXCEPT !.eth_transactions_gas_costs = @ + cost,
                                   !.csvexporter.all_events =
                                       Append(@, AuditRecord("tx_gas_cost",
                                                             transaction.timestamp,
                                                             eth_burned_as_gas, rate))])

\* An audit record that holds the gas used instead of the ETH burned.
account_for_gas_costs_recording_gas_used(s, transaction, include_gas_costs) ==
    IF ~include_gas_costs
    THEN Returned(s)
    ELSE IF transaction.timestamp < s.start_ts
    THEN Returned(s)
    ELSE LET gas_price == IF transaction.gas_price = NoGasPrice
                          THEN s.last_gas_price ELSE transaction.gas_price
             s1 == IF transaction.gas_price = NoGasPrice
                   THEN s ELSE [s EXCEPT !.last_gas_price = transaction.gas_price]
         IN IF transaction.price # "ok"
            THEN Raised(s1, transaction.price)
            ELSE LET rate == Rate(A_ETH, s.profit_currency, transaction.timestamp)
                     eth_burned_as_gas == transaction.gas_used * gas_price
                     cost == eth_burned_as_gas * rate
                 IN Returned([s1 EXCEPT !.eth_transactions_gas_costs = @ + cost,
                                        !.csvexporter.all_events =
                                            Append(@, AuditRecord("tx_gas_cost",
                                                                  transaction.timestamp,
                                                                  transaction.gas_used, rate))])

account_for_gas_costs(s, transaction, include_gas_costs) ==
    IF ~include_gas_costs
    THEN Returned(s)
    ELSE IF transaction.timestamp < s.start_ts
    THEN Returned(s)
    ELSE LET gas_price == IF transaction.gas_price = NoGasPrice
                          THEN s.last_gas_price ELSE transaction.gas_price
             s1 == IF transaction.gas_price = NoGasPrice
                   THEN s ELSE [s EXCEPT !.last_gas_price = transaction.gas_price]
         IN IF transaction.price # "ok"
            THEN Raised(s1, transaction.price)
            ELSE LET rate == Rate(A_ETH, s.profit_currency, transaction.timestamp)
                     eth_burned_as_gas == transaction.gas_used * gas_price
                     cost == eth_burned_as_gas * rate
                 IN Returned([s1 EXCEPT !.eth_transactions_gas_costs = @ + cost,
                                        !.csvexporter.all_events =
                                            Append(@, AuditRecord("tx_gas_cost",
                                                                  transaction.timestamp,
                                                                  eth_burned_as_gas, rate))])

\* Accountant.trade_add_to_sell_events: both price lookups come before the
\* ledger is touched.
\* A sale that reaches the ledger before the lookup of the fee's rate, which
\* then fails for it.
trade_add_to_sell_events_ledger_first(s, trade, loan_settlement) ==
    LET selling_asset == trade.base_asset
        receiving_asset == trade.quote_asset
        receiving_asset_rate == Rate(receiving_asset, s.profit_currency, trade.timestamp)
        selling_rate == receiving_asset_rate * trade.rate
        fee_in_profit_currency == get_fee_in_profit_currency(s, trade)
        gain_in_profit_currency == selling_rate * trade.amount
        record == AuditRecord(IF loan_settlement THEN "loan_settlement" ELSE "sell",
                              trade.timestamp, trade.amount, selling_rate)
        sold == [s EXCEPT !.events = EventsAddSell(
                    @, selling_asset, trade.amount, receiving_asset, gain_in_profit_currency,
                    0, selling_rate, trade.timestamp, loan_settlement)]
    IN IF trade.price # "ok"
       THEN Raised(sold, trade.price)
       ELSE IF ~loan_settlement
       THEN Returned([s EXCEPT
               !.events = EventsAddSellAndCorrespondingBuy(
                   @, selling_asset, trade.amount, receiving_asset,
                   trade.amount * trade.rate, gain_in_profit_currency,
                   fee_in_profit_currency, selling_rate, receiving_asset_rate,
                   trade.timestamp),
               !.csvexporter.all_events = Append(@, record)])
       ELSE Returned([s EXCEPT
               !.events = EventsAddSell(
                   @, selling_asset, trade.amount, None, gain_in_profit_currency,
                   fee_in_profit_currency, selling_rate, trade.timestamp, TRUE),
               !.csvexporter.all_events = Append(@, record)])

\* A sale that records the corresponding buy whether it settles a loan or not.
trade_add_to_sell_events_buying_always(s, trade, loan_settlement) ==
    IF trade.price # "ok"
    THEN Raised(s, trade.price)
    ELSE LET receiving_asset_rate == Rate(trade.quote_asset, s.profit_currency, trade.timestamp)
             selling_rate == receiving_asset_rate * trade.rate
         IN Returned([s EXCEPT
                !.events = EventsAddSellAndCorrespondingBuy(
                    @, trade.base_asset, trade.amount, trade.quote_asset,
                    trade.amount * trade.rate, selling_rate * trade.amount,
                    get_fee_in_profit_currency(s, trade), selling_rate, receiving_asset_rate,
                    trade.timestamp),
                !.csvexporter.all_events =
                    Append(@, AuditRecord(IF loan_settlement THEN "loan_settlement" ELSE "sell",
                                          trade.timestamp, trade.amount, selling_rate))])

trade_add_to_sell_events(s, trade, loan_settlement) ==
    IF trade.price # "ok"
    THEN Raised(s, trade.price)
    ELSE LET selling_asset == trade.base_asset
             receiving_asset == trade.quote_asset
             receiving_asset_rate == Rate(receiving_asset, s.profit_currency, trade.timestamp)
             selling_rate == receiving_asset_rate * trade.rate
             fee_in_profit_currency == get_fee_in_profit_currency(s, trade)
             gain_in_profit_currency == selling_rate * trade.amount
             record == AuditRecord(IF loan_settlement THEN "loan_settlement" ELSE "sell",
                                   trade.timestamp, trade.amount, selling_rate)
         IN IF ~loan_settlement
            THEN Returned([s EXCEPT
                    !.events = EventsAddSellAndCorrespondingBuy(
                        @, selling_asset, trade.amount, receiving_asset,
                        trade.amount * trade.rate, gain_in_profit_currency,
                        fee_in_profit_currency, selling_rate, receiving_asset_rate,
                        trade.timestamp),
                    !.csvexporter.all_events = Append(@, record)])
            ELSE Returned([s EXCEPT
                    !.events = EventsAddSell(
                        @, selling_asset, trade.amount, None, gain_in_profit_currency,
                        fee_in_profit_currency, selling_rate, trade.timestamp, TRUE),
                    !.csvexporter.all_events = Append(@, record)])

\* ---------------------------------------------------------- process_action

\* The trade types process_action knows.
TradeTypes == {"BUY", "SELL", "SETTLEMENT_SELL", "SETTLEMENT_BUY"}

\* action_get_assets, when it resolves the assets: the pair of a trade, the
\* one asset of any other action (ETH for an on-chain transaction).
action_get_assets(action) ==
    IF action.kind = "trade" THEN <<action.base_asset, action.quote_asset>>
    ELSE IF action.kind = "ethereum_transaction" THEN <<A_ETH, None>>
    ELSE <<action.asset, None>>

\* What process_action hands back to the loop: the object, the exception it
\* raised if any, the pair (should_continue, prev_time) it returned otherwise,
\* and, for the record of the pass, the path it took.
Outcome(s, raised, should_continue, prev_time, path) ==
    [self |-> s, raised |-> raised, should_continue |-> should_continue,
     prev_time |-> prev_time, path |-> path]

\* An accounting operation's result as process_action's: it returns
\* (True, prev_time) when the operation returned and raises what it raised.
AfterOperation(r, prev_time) ==
    Outcome(r.self, r.raised, TRUE, prev_time,
            IF r.raised = NoRaise THEN "dispatched" ELSE r.raised)

Audit(s, type, timestamp, amount, rate) ==
    [s EXCEPT !.csvexporter.all_events = Append(@, AuditRecord(type, timestamp, amount, rate))]

\* Lines 555-557: the trade's type is none of the four; the AssertionError
\* leaves process_action.
\* A trade of unknown type that is passed over instead.
unknown_trade_type_skipped(s, prev_time) ==
    Outcome(s, NoRaise, TRUE, prev_time, "ignored")

unknown_trade_type(s, prev_time) ==
    Outcome(s, "AssertionError", FALSE, prev_time, "unknown_trade_type")

\* The trade branch of process_action (lines 506-559).
process_trade(s, trade, prev_time) ==
    IF trade.trade_type = "BUY"
    THEN IF trade.price # "ok"
         THEN Outcome(s, trade.price, TRUE, prev_time, trade.price)
         ELSE AfterOperation(Returned(Audit(
                [s EXCEPT !.events = EventsAddBuyAndCorrespondingSell(
                    @, trade.base_asset, trade.amount, trade.quote_asset, trade.rate,
                    get_fee_in_profit_currency(s, trade), trade.timestamp)],
                "buy", trade.timestamp, trade.amount,
                Rate(trade.quote_asset, s.profit_currency, trade.timestamp) * trade.rate)),
              prev_time)
    ELSE IF trade.trade_type = "SELL"
    THEN AfterOperation(trade_add_to_sell_events(s, trade, FALSE), prev_time)
    ELSE IF trade.trade_type = "SETTLEMENT_SELL"
    THEN AfterOperation(trade_add_to_sell_events(s, trade, TRUE), prev_time)
    ELSE IF trade.trade_type = "SETTLEMENT_BUY"
    THEN IF trade.price # "ok"
         THEN Outcome(s, trade.price, TRUE, prev_time, trade.price)
         ELSE LET selling_asset == A_BTC
                  selling_asset_rate == Rate(selling_asset, s.profit_currency, trade.timestamp)
                  selling_rate == selling_asset_rate * trade.rate
                  fee_in_profit_currency == get_fee_in_profit_currency(s, trade)
                  gain_in_profit_currency == selling_rate * trade.amount
                  selling_amount == trade.rate * trade.amount
              IN AfterOperation(Returned(Audit(
                    [s EXCEPT !.events = EventsAddSell(
                        @, selling_asset, selling_amount, None, gain_in_profit_currency,
                        fee_in_profit_currency, selling_asset_rate, trade.timestamp, TRUE)],
                    "loan_settlement", trade.timestamp, selling_amount, selling_asset_rate)),
                  prev_time)
    ELSE unknown_trade_type(s, prev_time)

\* The dispatch of process_action by action type (lines 477-559).
dispatch(s, action, timestamp, prev_time, db_settings) ==
    LET action_type == action_get_type(action)
    IN IF action_type = "loan"
       THEN IF action.price # "ok"
            THEN Outcome(s, action.price, TRUE, prev_time, action.price)
            ELSE AfterOperation(Returned(Audit(
                    [s EXCEPT !.events = EventsAddLoanGain(@, action.asset, action.earned,
                                                           action.fee, timestamp)],
                    "loan", timestamp, action.earned - action.fee,
                    Rate(action.asset, s.profit_currency, timestamp))), prev_time)
       ELSE IF action_type = "asset_movement"
       THEN AfterOperation(add_asset_movement_to_events(s, action), prev_time)
       ELSE IF action_type = "margin_position"
       THEN AfterOperation(Returned(Audit(
                [s EXCEPT !.events = EventsAddMarginPosition(@, action)],
                "margin_position", timestamp, action.pl, 1)), prev_time)
       ELSE IF action_type = "ethereum_transaction"
       THEN AfterOperation(account_for_gas_costs(s, action, db_settings.include_gas_costs),
                           prev_time)
       ELSE IF action_type = "defi_event"
       THEN AfterOperation(Returned(Audit(
                [s EXCEPT !.events = EventsAddDefiEvent(@, action)],
                "defi_event", timestamp, action.pl, 1)), prev_time)
       ELSE process_trade(s, action, prev_time)

\* Lines 430-431: the action is past the end of the window.
\* A window that ends before end_ts instead of after it.
past_end_ts_inclusive(timestamp, given_end_ts) == timestamp >= given_end_ts

past_end_ts(timestamp, given_end_ts) == timestamp > given_end_ts

\* Lines 439-456: action_get_assets raised; the user is told, with a warning
\* for an unknown or unsupported asset and an error for a malformed one.
\* A handler that drops the unsupported asset without a word.
asset_error_unsupported_silent(s, exception) ==
    IF exception = "UnsupportedAsset" THEN s
    ELSE AddMessage(s, IF exception = "DeserializationError" THEN "error" ELSE "warning",
                    exception)

asset_error(s, exception) ==
    AddMessage(s, IF exception = "DeserializationError" THEN "error" ELSE "warning", exception)

\* process_action with the ignore list checked before the assets are resolved.
process_action_ignore_first(s, action, end_ts, prev_time, db_settings, ignored_assets) ==
    LET timestamp == action_get_timestamp(action)
        s1 == [s EXCEPT !.currently_processing_timestamp = timestamp]
        assets == action_get_assets(action)
    IN IF ~(timestamp >= prev_time)
       THEN Outcome(s, "AssertionError", FALSE, prev_time, "not_ascending")
       ELSE IF past_end_ts(timestamp, end_ts)
       THEN Outcome(s, NoRaise, FALSE, timestamp, "stop")
       ELSE IF assets[1] \in ignored_assets \/ assets[2] \in ignored_assets
       THEN Outcome(s1, NoRaise, TRUE, timestamp, "ignored")
       ELSE IF action.res \in AssetErrors
       THEN Outcome(asset_error(s1, action.res), NoRaise, TRUE, timestamp, action.res)
       ELSE IF action.res = "UnknownEthereumToken"
       THEN Outcome(s1, NoRaise, TRUE, timestamp, "unknown_token")
       ELSE dispatch(s1, action, timestamp, timestamp, db_settings)

\* process_action that filters out the actions before start_ts.
process_action_from_start_ts(s, action, end_ts, prev_time, db_settings, ignored_assets) ==
    LET timestamp == action_get_timestamp(action)
        s1 == [s EXCEPT !.currently_processing_timestamp = timestamp]
        assets == action_get_assets(action)
    IN IF ~(timestamp >= prev_time)
       THEN Outcome(s, "AssertionError", FALSE, prev_time, "not_ascending")
       ELSE IF past_end_ts(timestamp, end_ts)
       THEN Outcome(s, NoRaise, FALSE, timestamp, "stop")
       ELSE IF timestamp < s.start_ts
       THEN Outcome(s1, NoRaise, TRUE, timestamp, "ignored")
       ELSE IF action.res \in AssetErrors
       THEN Outcome(asset_error(s1, action.res), NoRaise, TRUE, timestamp, action.res)
       ELSE IF action.res = "UnknownEthereumToken"
       THEN Outcome(s1, NoRaise, TRUE, timestamp, "unknown_token")
       ELSE IF assets[1] \in ignored_assets \/ assets[2] \in ignored_assets
       THEN Outcome(s1, NoRaise, TRUE, timestamp, "ignored")
       ELSE dispatch(s1, action, timestamp, timestamp, db_settings)

\* Accountant.process_action
process_action(s, action, end_ts, prev_time, db_settings, ignored_assets) ==
    LET timestamp == action_get_timestamp(action)
        s1 == [s EXCEPT !.currently_processing_timestamp = timestamp]
        assets == action_get_assets(action)
    IN IF ~(timestamp >= prev_time)
       THEN Outcome(s, "AssertionError", FALSE, prev_time, "not_ascending")
       ELSE IF past_end_ts(timestamp, end_ts)
       THEN Outcome(s, NoRaise, FALSE, timestamp, "stop")
       ELSE IF action.res \in AssetErrors
       THEN Outcome(asset_error(s1, action.res), NoRaise, TRUE, timestamp, action.res)
       ELSE IF action.res = "UnknownEthereumToken"
       THEN Outcome(s1, NoRaise, TRUE, timestamp, "unknown_token")
       ELSE IF assets[1] \in ignored_assets \/ assets[2] \in ignored_assets
       THEN Outcome(s1, NoRaise, TRUE, timestamp, "ignored")
       ELSE dispatch(s1, action, timestamp, timestamp, db_settings)

\* Accountant.general_trade_pl and Accountant.taxable_trade_pl (lines 74-81).
general_trade_pl(s) == s.events.general_trade_profit_loss

taxable_trade_pl(s) == s.events.taxable_trade_profit_loss

\* Accountant.get_calculated_asset_amount: the amount left in the buy lots of
\* the asset, None for an asset the ledger has not seen.
\* A count of the lots instead of the sum of their amounts.
get_calculated_asset_amount_counting_lots(s, asset) ==
    IF asset \notin DOMAIN s.events.events THEN None
    ELSE Len(s.events.events[asset].buys)

get_calculated_asset_amount(s, asset) ==
    IF asset \notin DOMAIN s.events.events THEN None
    ELSE SumSeq([k \in 1..Len(s.events.events[asset].buys) |->
                    s.events.events[asset].buys[k].amount])

\* --------------------------------------------------------- process_history

VARIABLES
    \* The arguments of process_history, the same on every call.
    start_ts, end_ts, trade_history, loan_history, asset_movements, eth_transactions,
    defi_events,
    \* The DBHandler: the settings store and the ignored-assets registry.
    db,
    \* The Accountant object.
    self,
    \* The locals of process_history: the sorted actions, the position of the
    \* loop in them, prev_time, count and the settings read at the start.
    actions, i, prev_time, count, db_settings,
    \* Where the call stands: "idle" before the first call, "loop" between two
    \* iterations, "yield" in gevent.sleep, "finish" after the break,
    \* "returned" and "raised" after the call.
    pc,
    \* For each action the loop has handed to process_action, in order: the
    \* path process_action took and the messages the iteration added.
    trace,
    \* The reports the calls have returned, and the number of calls made.
    reports, runs

args == <<start_ts, end_ts, trade_history, loan_history, asset_movements,
          eth_transactions, defi_events>>

vars == <<start_ts, end_ts, trade_history, loan_history, asset_movements,
          eth_transactions, defi_events, db, self, actions, i, prev_time, count,
          db_settings, pc, trace, reports, runs>>

\* Lines 281-286: the run state starts over.
\* A reset that forgets the carried-forward gas price.
reset_run_state_keeping_gas_price(s, given_start_ts) ==
    [s EXCEPT !.events = EventsReset(@),
              !.start_ts = given_start_ts,
              !.eth_transactions_gas_costs = 0,
              !.asset_movement_fees = 0,
              !.csvexporter.all_events = <<>>]

reset_run_state(s, given_start_ts) ==
    [s EXCEPT !.events = EventsReset(@),
              !.last_gas_price = DefaultGasPrice,
              !.start_ts = given_start_ts,
              !.eth_transactions_gas_costs = 0,
              !.asset_movement_fees = 0,
              !.csvexporter.all_events = <<>>]

\* Lines 293-305: the five collections, one after the other.
concatenate(trades, loans, movements, transactions, events) ==
    trades \o loans \o movements \o transactions \o events

\* The timestamp of the last action instead of the first.
first_timestamp_of_last(sorted) ==
    IF Len(sorted) = 0 THEN 0 ELSE action_get_timestamp(sorted[Len(sorted)])

\* Lines 310-313: the timestamp of the first action, 0 for an empty history.
first_timestamp(sorted) ==
    IF Len(sorted) = 0 THEN 0 ELSE action_get_timestamp(sorted[1])

\* Lines 317-371: one iteration of the loop over the sorted actions.  A price
\* failure is reported and the loop goes on to the next action with prev_time
\* and count as they were; any other exception leaves the loop and the call;
\* should_continue False breaks; otherwise the action counts, after a sleep
\* when count is a multiple of 500.
\* An iteration that lets a price failure leave the call.
loop_body_price_error_fatal(s, action, given_end_ts, given_prev_time, settings, ignored_assets) ==
    LET r == process_action(s, action, given_end_ts, given_prev_time, settings, ignored_assets)
    IN IF r.raised # NoRaise
       THEN [self |-> r.self, prev_time |-> given_prev_time, next |-> "raise", path |-> r.path]
       ELSE [self |-> r.self, prev_time |-> r.prev_time,
             next |-> IF r.should_continue THEN "count" ELSE "break", path |-> r.path]

loop_body(s, action, given_end_ts, given_prev_time, settings, ignored_assets) ==
    LET r == process_action(s, action, given_end_ts, given_prev_time, settings, ignored_assets)
    IN IF r.raised \in PriceErrors
       THEN [self |-> AddMessage(r.self, "error", r.raised), prev_time |-> given_prev_time,
             next |-> "continue", path |-> r.path]
       ELSE IF r.raised # NoRaise
       THEN [self |-> r.self, prev_time |-> given_prev_time, next |-> "raise", path |-> r.path]
       ELSE [self |-> r.self, prev_time |-> r.prev_time,
             next |-> IF r.should_continue THEN "count" ELSE "break", path |-> r.path]

\* Lines 376-402: the report.
\* A report whose costs are added instead of subtracted.
overview_adding_costs(s) ==
    LET sum_other_actions == s.events.margin_positions_profit_loss
                             + s.events.defi_profit_loss
                             + s.events.loan_profit
                             - s.events.settlement_losses
                             + s.asset_movement_fees
                             + s.eth_transactions_gas_costs
        total_taxable_pl == s.events.taxable_trade_profit_loss + sum_other_actions
    IN [defi_profit_loss |-> Str(s.events.defi_profit_loss),
        loan_profit |-> Str(s.events.loan_profit),
        margin_positions_profit_loss |-> Str(s.events.margin_positions_profit_loss),
        settlement_losses |-> Str(s.events.settlement_losses),
        ethereum_transaction_gas_costs |-> Str(s.eth_transactions_gas_costs),
        asset_movement_fees |-> Str(s.asset_movement_fees),
        general_trade_profit_loss |-> Str(s.events.general_trade_profit_loss),
        taxable_trade_profit_loss |-> Str(s.events.taxable_trade_profit_loss),
        total_taxable_profit_loss |-> Str(total_taxable_pl),
        total_profit_loss |-> Str(s.events.general_trade_profit_loss + sum_other_actions)]

overview(s) ==
    LET sum_other_actions == s.events.margin_positions_profit_loss
                             + s.events.defi_profit_loss
                             + s.events.loan_profit
                             - s.events.settlement_losses
                             - s.asset_movement_fees
                             - s.eth_transactions_gas_costs
        total_taxable_pl == s.events.taxable_trade_profit_loss + sum_other_actions
    IN [defi_profit_loss |-> Str(s.events.defi_profit_loss),
        loan_profit |-> Str(s.events.loan_profit),
        margin_positions_profit_loss |-> Str(s.events.margin_positions_profit_loss),
        settlement_losses |-> Str(s.events.settlement_losses),
        ethereum_transaction_gas_costs |-> Str(s.eth_transactions_gas_costs),
        asset_movement_fees |-> Str(s.asset_movement_fees),
        general_trade_profit_loss |-> Str(s.events.general_trade_profit_loss),
        taxable_trade_profit_loss |-> Str(s.events.taxable_trade_profit_loss),
        total_taxable_profit_loss |-> Str(total_taxable_pl),
        total_profit_loss |-> Str(s.events.general_trade_profit_loss + sum_other_actions)]

report_of(s) == [overview |-> overview(s), all_events |-> s.csvexporter.all_events]

\* process_history is called: lines 276-316, up to the loop.
Call ==
    /\ pc \in {"idle", "returned", "raised"}
    /\ runs < MaxRuns
    /\ LET s1 == Customize(reset_run_state(self, start_ts), db.settings)
           sorted == SortByTimestamp(concatenate(trade_history, loan_history,
                                                 asset_movements, eth_transactions,
                                                 defi_events))
           first_ts == first_timestamp(sorted)
       IN /\ self' = [s1 EXCEPT !.currently_processing_timestamp = first_ts,
                                !.started_processing_timestamp = first_ts]
          /\ actions' = sorted
    /\ db_settings' = db.settings
    /\ prev_time' = 0
    /\ count' = 0
    /\ i' = 1
    /\ trace' = <<>>
    /\ runs' = runs + 1
    /\ pc' = "loop"
    /\ UNCHANGED <<args, db, reports>>

\* One iteration of the loop, up to the next iteration, the sleep, the break
\* or the exception that leaves the call.
\* An iteration that reads the settings store again for every action.
IterateRereadingSettings ==
    /\ pc = "loop"
    /\ i <= Len(actions)
    /\ LET b == loop_body(Customize(self, db.settings), actions[i], end_ts, prev_time,
                          db.settings, db.ignored_assets)
       IN /\ self' = b.self
          /\ prev_time' = b.prev_time
          /\ trace' = Append(trace, [path |-> b.path,
                                     messages |-> Len(b.self.msg_aggregator)
                                                  - Len(self.msg_aggregator)])
          /\ IF b.next = "continue"
             THEN pc' = "loop" /\ i' = i + 1 /\ count' = count
             ELSE IF b.next = "raise"
             THEN pc' = "raised" /\ i' = i /\ count' = count
             ELSE IF b.next = "break"
             THEN pc' = "finish" /\ i' = i /\ count' = count
             ELSE IF count % YieldEvery = 0
             THEN pc' = "yield" /\ i' = i + 1 /\ count' = count
             ELSE pc' = "loop" /\ i' = i + 1 /\ count' = count + 1
    /\ db_settings' = db.settings
    /\ UNCHANGED <<args, db, actions, reports, runs>>

Iterate ==
    /\ pc = "loop"
    /\ i <= Len(actions)
    /\ LET b == loop_body(self, actions[i], end_ts, prev_time, db_settings,
                          db.ignored_assets)
       IN /\ self' = b.self
          /\ prev_time' = b.prev_time
          /\ trace' = Append(trace, [path |-> b.path,
                                     messages |-> Len(b.self.msg_aggregator)
                                                  - Len(self.msg_aggregator)])
          /\ IF b.next = "continue"
             THEN pc' = "loop" /\ i' = i + 1 /\ count' = count
             ELSE IF b.next = "raise"
             THEN pc' = "raised" /\ i' = i /\ count' = count
             ELSE IF b.next = "break"
             THEN pc' = "finish" /\ i' = i /\ count' = count
             ELSE IF count % YieldEvery = 0
             THEN pc' = "yield" /\ i' = i + 1 /\ count' = count
             ELSE pc' = "loop" /\ i' = i + 1 /\ count' = count + 1
    /\ UNCHANGED <<args, db, actions, db_settings, reports, runs>>

\* gevent.sleep(0.5) returns and the action is counted (lines 370-371).
Resume ==
    /\ pc = "yield"
    /\ count' = count + 1
    /\ pc' = "loop"
    /\ UNCHANGED <<args, db, self, actions, i, prev_time, db_settings, trace, reports, runs>>

\* The loop is over: the report is built and returned (lines 373-402).
Return ==
    /\ IF pc = "loop" THEN i > Len(actions) ELSE pc = "finish"
    /\ reports' = Append(reports, report_of(self))
    /\ pc' = "returned"
    /\ UNCHANGED <<args, db, self, actions, i, prev_time, count, db_settings, trace, runs>>

Next == Call \/ Iterate \/ Resume \/ Return

\* The assets a user can put on the ignore list.
Assets == {A_BTC, A_ETH, A_EUR, A_KFEE}

\* While process_history sleeps in gevent.sleep (line 369) another greenlet
\* runs and changes the ignored-assets registry of the DBHandler: ETH is put
\* on the list, or taken off it.
OtherTaskSetsIgnoredAssets ==
    /\ pc = "yield"
    /\ db' = [db EXCEPT !.ignored_assets =
                IF A_ETH \in @ THEN @ \ {A_ETH} ELSE @ \cup {A_ETH}]
    /\ UNCHANGED <<args, self, actions, i, prev_time, count, db_settings, pc, trace,
                   reports, runs>>

\* While process_history sleeps another greenlet changes the settings store:
\* every setting is flipped, or put back.
OtherTaskSetsSettings ==
    /\ pc = "yield"
    /\ db' = [db EXCEPT !.settings =
                [main_currency |-> IF @.main_currency = A_EUR THEN A_BTC ELSE A_EUR,
                 include_crypto2crypto |-> ~@.include_crypto2crypto,
                 taxfree_after_period |->
                    IF @.taxfree_after_period = TaxfreeDisabled THEN 1 ELSE TaxfreeDisabled,
                 account_for_assets_movements |-> ~@.account_for_assets_movements,
                 include_gas_costs |-> ~@.include_gas_costs]]
    /\ UNCHANGED <<args, self, actions, i, prev_time, count, db_settings, pc, trace,
                   reports, runs>>

\* process_history with the other greenlets of the application.
NextConcurrent ==
    Call \/ Iterate \/ Resume \/ Return \/ OtherTaskSetsIgnoredAssets \/ OtherTaskSetsSettings

\* ------------------------------------------------------------------ inputs

Trade(timestamp, trade_type, base_asset, quote_asset, amount, rate, fee, res, price) ==
    [kind |-> "trade", timestamp |-> timestamp, trade_type |-> trade_type,
     base_asset |-> base_asset, quote_asset |-> quote_asset, amount |-> amount,
     rate |-> rate, fee |-> fee, fee_currency |-> quote_asset, res |-> res, price |-> price]

MarginPosition(timestamp, pl) ==
    [kind |-> "margin_position", timestamp |-> timestamp, asset |-> A_BTC, pl |-> pl,
     res |-> "ok", price |-> "ok"]

Loan(timestamp, earned, fee, price) ==
    [kind |-> "loan", timestamp |-> timestamp, asset |-> A_BTC, earned |-> earned,
     fee |-> fee, res |-> "ok", price |-> price]

AssetMovement(timestamp, asset, fee, res, price) ==
    [kind |-> "asset_movement", timestamp |-> timestamp, asset |-> asset,
     fee_asset |-> asset, fee |-> fee, res |-> res, price |-> price]

EthereumTransaction(timestamp, gas_used, gas_price, price) ==
    [kind |-> "ethereum_transaction", timestamp |-> timestamp, gas_used |-> gas_used,
     gas_price |-> gas_price, res |-> "ok", price |-> price]

DefiEvent(timestamp, pl) ==
    [kind |-> "defi_event", timestamp |-> timestamp, asset |-> A_ETH, pl |-> pl,
     res |-> "ok", price |-> "ok"]

\* The settings store's answer.
Settings(include_gas_costs, account_for_assets_movements, taxfree_after_period, include_crypto2crypto) ==
    [main_currency |-> A_EUR, include_crypto2crypto |-> include_crypto2crypto,
     taxfree_after_period |-> taxfree_after_period,
     account_for_assets_movements |-> account_for_assets_movements,
     include_gas_costs |-> include_gas_costs]

\* The state after Accountant(db, ...) was constructed, with the arguments
\* the caller is going to pass: the actions of `stream`, each in the
\* collection of its kind and in the order of the stream, and the window.
InitWith(Streams, Windows, SettingsChoices, IgnoredChoices) ==
    \E stream \in Streams, window \in Windows, settings \in SettingsChoices,
       ignored_assets \in IgnoredChoices :
        /\ start_ts = window[1]
        /\ end_ts = window[2]
        /\ trade_history = SelectSeq(stream, LAMBDA a : a.kind \in {"trade", "margin_position"})
        /\ loan_history = SelectSeq(stream, LAMBDA a : a.kind = "loan")
        /\ asset_movements = SelectSeq(stream, LAMBDA a : a.kind = "asset_movement")
        /\ eth_transactions = SelectSeq(stream, LAMBDA a : a.kind = "ethereum_transaction")
        /\ defi_events = SelectSeq(stream, LAMBDA a : a.kind = "defi_event")
        /\ db = [settings |-> settings, ignored_assets |-> ignored_assets]
        /\ self = NewAccountant(settings.main_currency)
        /\ actions = <<>>
        /\ i = 1
        /\ prev_time = 0
        /\ count = 0
        /\ db_settings = settings
        /\ pc = "idle"
        /\ trace = <<>>
        /\ reports = <<>>
        /\ runs = 0

\* The actions of a history are drawn from a list of templates, each at every
\* timestamp: item (j - 1) * (MaxTs + 1) + t + 1 is template j at timestamp t.
ItemsOf(templates) ==
    [n \in 1..(Len(templates) * (MaxTs + 1)) |->
        [templates[((n - 1) \div (MaxTs + 1)) + 1] EXCEPT !.timestamp = (n - 1) % (MaxTs + 1)]]

\* Every history of at most n items, in every order.
AllStreams(items, n) ==
    UNION {{[j \in 1..k |-> items[f[j]]] : f \in [1..k -> 1..Len(items)]} : k \in 0..n}

\* The histories of at most n items whose items come in the order of the
\* list: each collection then holds its actions template by template, not in
\* timestamp order, and every order of n templates in the sorted pass is
\* reached by giving them different timestamps.
ListedStreams(items, n) ==
    UNION {{[j \in 1..k |-> items[f[j]]] :
                f \in {g \in [1..k -> 1..Len(items)] :
                          \A j \in 1..(k - 1) : g[j] <= g[j + 1]}} : k \in 0..n}

\* The window that holds every timestamp.
SortWindows == {<<0, MaxTs>>}

\* Each template at the first and at the last timestamp: item 2j - 1 is
\* template j at 0 and item 2j is template j at MaxTs.
ItemsAtEnds(templates) ==
    [n \in 1..(Len(templates) * 2) |->
        [templates[((n - 1) \div 2) + 1] EXCEPT !.timestamp = IF n % 2 = 1 THEN 0 ELSE MaxTs]]

\* The pass over a history of every kind of action: some price lookups fail,
\* some gas prices are unavailable, and the window cuts into the history.
PassTemplates ==
    <<Trade(0, "BUY", A_BTC, A_EUR, 1, 2, 1, "ok", "ok"),
      Trade(0, "SELL", A_BTC, A_EUR, 1, 3, 1, "ok", "NoPriceForGivenTimestamp"),
      MarginPosition(0, 1),
      Loan(0, 2, 1, "RemoteError"),
      AssetMovement(0, A_BTC, 1, "ok", "PriceQueryUnsupportedAsset"),
      EthereumTransaction(0, 1, NoGasPrice, "ok"),
      EthereumTransaction(0, 1, 3, "ok"),
      DefiEvent(0, 1)>>

PassWindows == {<<0, 1>>, <<1, MaxTs>>}

PassSettings == {Settings(TRUE, TRUE, TaxfreeDisabled, TRUE)}

Init == InitWith(ListedStreams(ItemsOf(PassTemplates), MaxActions), PassWindows, PassSettings, {{}})

Spec == Init /\ [][Next]_vars

\* The pass over collections given in every order: a trade whose price lookup
\* fails, a margin position and an on-chain transaction.
OrderTemplates ==
    <<Trade(0, "SELL", A_BTC, A_EUR, 1, 3, 1, "ok", "NoPriceForGivenTimestamp"),
      MarginPosition(0, 1),
      EthereumTransaction(0, 1, NoGasPrice, "ok")>>

InitOrder == InitWith(AllStreams(ItemsOf(OrderTemplates), MaxActions), PassWindows, PassSettings, {{}})

SpecOrder == InitOrder /\ [][Next]_vars

\* The pass over trades, some of whose assets do not resolve, and transfers.
ResolveTemplates ==
    <<Trade(0, "BUY", A_BTC, A_EUR, 2, 2, 1, "ok", "ok"),
      Trade(0, "SELL", A_BTC, A_EUR, 1, 3, 1, "ok", "ok"),
      Trade(0, "BUY", "XYZ", A_EUR, 1, 1, 0, "UnknownAsset", "ok"),
      Trade(0, "SELL", A_BTC, "XYZ", 1, 1, 0, "UnsupportedAsset", "ok"),
      Trade(0, "SELL", A_BTC, A_EUR, 1, 1, 0, "DeserializationError", "ok"),
      AssetMovement(0, A_BTC, 1, "ok", "ok")>>

InitResolve == InitWith(ListedStreams(ItemsOf(ResolveTemplates), MaxActions), PassWindows, PassSettings, {{}})

SpecResolve == InitResolve /\ [][Next]_vars

\* The pass over actions that are all accounted, one of every category of the
\* report, with a tax-free period of one time unit.
TotalsTemplates ==
    <<Trade(0, "BUY", A_BTC, A_EUR, 2, 2, 1, "ok", "ok"),
      Trade(0, "SELL", A_BTC, A_EUR, 1, 3, 1, "ok", "ok"),
      Trade(0, "SETTLEMENT_SELL", A_BTC, A_EUR, 1, 2, 1, "ok", "ok"),
      MarginPosition(0, 1),
      Loan(0, 2, 1, "ok"),
      AssetMovement(0, A_BTC, 1, "ok", "ok"),
      EthereumTransaction(0, 1, 3, "ok"),
      DefiEvent(0, 1)>>

TotalsSettings == {Settings(TRUE, TRUE, 1, TRUE)}

InitTotals == InitWith(ListedStreams(ItemsOf(TotalsTemplates), MaxActions), PassWindows, TotalsSettings, {{}})

SpecTotals == InitTotals /\ [][Next]_vars

\* The pass over on-chain transactions and transfers: gas prices real and
\* unavailable, price lookups that fail, the fee-only unit, with gas-cost and
\* transfer accounting both on or both off, and windows that start after the
\* first actions.
GasTemplates ==
    <<EthereumTransaction(0, 1, NoGasPrice, "ok"),
      EthereumTransaction(0, 1, 3, "ok"),
      EthereumTransaction(0, 2, 4, "RemoteError"),
      AssetMovement(0, A_BTC, 1, "ok", "ok"),
      AssetMovement(0, A_KFEE, 1, "ok", "ok"),
      AssetMovement(0, A_ETH, 2, "ok", "NoPriceForGivenTimestamp")>>

GasSettings == {Settings(TRUE, TRUE, TaxfreeDisabled, TRUE),
                Settings(FALSE, FALSE, TaxfreeDisabled, TRUE)}

InitGas == InitWith(ListedStreams(ItemsOf(GasTemplates), MaxActions), PassWindows, GasSettings, {{}})

SpecGas == InitGas /\ [][Next]_vars

\* The pass over trades whose type process_action does not know, among
\* trades it knows: with assets that resolve, that do not resolve, that are
\* unknown tokens, and with ETH ignored or not.
TradeTypeTemplates ==
    <<Trade(0, "BUY", A_BTC, A_EUR, 2, 2, 1, "ok", "ok"),
      Trade(0, "OTHER", A_BTC, A_EUR, 1, 2, 1, "ok", "ok"),
      Trade(0, "OTHER", A_BTC, A_EUR, 1, 2, 1, "UnknownAsset", "ok"),
      Trade(0, "OTHER", A_BTC, A_EUR, 1, 2, 1, "UnknownEthereumToken", "ok"),
      Trade(0, "OTHER", A_ETH, A_EUR, 1, 2, 1, "ok", "ok"),
      Trade(0, "SETTLEMENT_BUY", A_BTC, A_EUR, 1, 2, 1, "ok", "ok"),
      MarginPosition(0, 1)>>

TradeTypeIgnored == {{}, {A_ETH}}

InitTradeType == InitWith(ListedStreams(ItemsOf(TradeTypeTemplates), MaxActions), PassWindows, PassSettings, TradeTypeIgnored)

SpecTradeType == InitTradeType /\ [][Next]_vars

\* The pass while other greenlets change the ignore list and the settings
\* store: trades of two assets, a transfer and a transaction, with ETH
\* ignored at first or not.
ConcurrentTemplates ==
    <<Trade(0, "BUY", A_BTC, A_EUR, 2, 2, 1, "ok", "ok"),
      Trade(0, "BUY", A_ETH, A_EUR, 1, 2, 1, "ok", "ok"),
      AssetMovement(0, A_BTC, 1, "ok", "ok"),
      EthereumTransaction(0, 1, 3, "ok")>>

ConcurrentIgnored == {{}, {A_ETH}}

InitConcurrent == InitWith(ListedStreams(ItemsAtEnds(ConcurrentTemplates), MaxActions), SortWindows, PassSettings, ConcurrentIgnored)

SpecConcurrent == InitConcurrent /\ [][NextConcurrent]_vars

\* The pass over buys of one asset at different rates and sales of it, one
\* covered by the first lot and one straddling two lots; histories are one
\* action longer than elsewhere, for two buys and two sales.
FifoTemplates ==
    <<Trade(0, "BUY", A_BTC, A_EUR, 1, 2, 0, "ok", "ok"),
      Trade(0, "BUY", A_BTC, A_EUR, 2, 3, 1, "ok", "ok"),
      Trade(0, "SELL", A_BTC, A_EUR, 1, 4, 1, "ok", "ok"),
      Trade(0, "SELL", A_BTC, A_EUR, 2, 5, 0, "ok", "ok")>>

InitFifo == InitWith(ListedStreams(ItemsOf(FifoTemplates), MaxActions + 1), PassWindows, PassSettings, {{}})

SpecFifo == InitFifo /\ [][Next]_vars

\* The pass over trades for the profit currency and between two other
\* assets, with the tax-free period disabled or of one time unit and
\* crypto-to-crypto trades included or not.
TaxfreeTemplates ==
    <<Trade(0, "BUY", A_BTC, A_EUR, 2, 2, 1, "ok", "ok"),
      Trade(0, "SELL", A_BTC, A_EUR, 1, 4, 1, "ok", "ok"),
      Trade(0, "SELL", A_BTC, A_ETH, 1, 2, 0, "ok", "ok"),
      Trade(0, "BUY", A_ETH, A_BTC, 1, 1, 1, "ok", "ok"),
      Trade(0, "SETTLEMENT_SELL", A_BTC, A_EUR, 1, 2, 1, "ok", "ok")>>

TaxfreeSettings == {Settings(TRUE, TRUE, TaxfreeDisabled, TRUE),
                    Settings(TRUE, TRUE, TaxfreeDisabled, FALSE),
                    Settings(TRUE, TRUE, 1, TRUE)}

InitTaxfree == InitWith(ListedStreams(ItemsOf(TaxfreeTemplates), MaxActions), PassWindows, TaxfreeSettings, {{}})

SpecTaxfree == InitTaxfree /\ [][Next]_vars

\* The sort of collections given in every order: an action of each of the
\* five collections, and a second kind of action of the trade collection,
\* each stamped with the first or the last timestamp.
SortTemplates ==
    <<Trade(0, "BUY", A_BTC, A_EUR, 1, 2, 1, "ok", "ok"),
      MarginPosition(0, 1),
      Loan(0, 2, 1, "ok"),
      AssetMovement(0, A_BTC, 1, "ok", "ok"),
      EthereumTransaction(0, 1, 3, "ok"),
      DefiEvent(0, 1)>>

InitSort == InitWith(AllStreams(ItemsAtEnds(SortTemplates), MaxActions), SortWindows, PassSettings, {{}})

SpecSort == InitSort /\ [][Next]_vars

\* The pass over actions the policies turn off: transactions and transfers
\* with gas-cost and transfer accounting both on or both off, the fee-only
\* unit, price lookups that would fail, and a trade of ETH, with ETH ignored
\* or not.
PolicyTemplates ==
    <<Trade(0, "BUY", A_ETH, A_EUR, 1, 2, 1, "ok", "ok"),
      AssetMovement(0, A_BTC, 1, "ok", "ok"),
      AssetMovement(0, A_KFEE, 1, "ok", "PriceQueryUnsupportedAsset"),
      AssetMovement(0, A_BTC, 2, "ok", "NoPriceForGivenTimestamp"),
      EthereumTransaction(0, 1, 3, "ok"),
      EthereumTransaction(0, 2, 4, "RemoteError")>>

InitPolicy == InitWith(ListedStreams(ItemsOf(PolicyTemplates), MaxActions), SortWindows, GasSettings, ConcurrentIgnored)

SpecPolicy == InitPolicy /\ [][Next]_vars

\* The pass over actions whose price lookups fail, among actions whose
\* lookups succeed: transactions with a real and with an unavailable gas
\* price, a transfer, a buy and a sale.
PriceFailureTemplates ==
    <<Trade(0, "BUY", A_BTC, A_EUR, 2, 2, 1, "ok", "ok"),
      Trade(0, "BUY", A_BTC, A_EUR, 1, 2, 1, "ok", "PriceQueryUnsupportedAsset"),
      Trade(0, "SELL", A_BTC, A_EUR, 1, 3, 1, "ok", "NoPriceForGivenTimestamp"),
      AssetMovement(0, A_ETH, 2, "ok", "NoPriceForGivenTimestamp"),
      EthereumTransaction(0, 1, 3, "ok"),
      EthereumTransaction(0, 2, 4, "RemoteError"),
      EthereumTransaction(0, 1, NoGasPrice, "ok")>>

InitPriceFailure == InitWith(ListedStreams(ItemsOf(PriceFailureTemplates), MaxActions), PassWindows, PassSettings, {{}})

SpecPriceFailure == InitPriceFailure /\ [][Next]_vars

\* The pass over actions of ETH and of BTC whose assets resolve or fail to
\* resolve in each of the three ways, with ETH ignored or not.
IgnoreTemplates ==
    <<Trade(0, "BUY", A_ETH, A_EUR, 1, 2, 1, "ok", "ok"),
      Trade(0, "BUY", A_ETH, A_EUR, 1, 2, 1, "UnknownAsset", "ok"),
      Trade(0, "SELL", A_ETH, A_EUR, 1, 2, 1, "UnsupportedAsset", "ok"),
      AssetMovement(0, A_ETH, 1, "DeserializationError", "ok"),
      Trade(0, "BUY", A_BTC, A_EUR, 1, 2, 1, "ok", "ok"),
      Trade(0, "BUY", A_BTC, A_EUR, 1, 2, 1, "UnknownAsset", "ok")>>

InitIgnore == InitWith(ListedStreams(ItemsOf(IgnoreTemplates), MaxActions), SortWindows, PassSettings, ConcurrentIgnored)

SpecIgnore == InitIgnore /\ [][Next]_vars

\* The pass over histories as long as the sleep's period and longer, of
\* actions whose price lookup fails, actions with an unknown asset and
\* accounted actions, in every order.
YieldTemplates ==
    <<Trade(0, "SELL", A_BTC, A_EUR, 1, 3, 1, "ok", "RemoteError"),
      Trade(0, "BUY", "XYZ", A_EUR, 1, 1, 0, "UnknownAsset", "ok"),
      MarginPosition(0, 1)>>

YieldStreams == AllStreams(ItemsAtEnds(YieldTemplates), MaxActions)

InitYield == InitWith(YieldStreams, SortWindows, PassSettings, {{}})

SpecYield == InitYield /\ [][Next]_vars

\* The pass over sales of every type: buys of BTC and of ETH for EUR, and a
\* plain sale, a settlement sale and a settlement buy of ETH against BTC.
SettlementTemplates ==
    <<Trade(0, "BUY", A_BTC, A_EUR, 3, 2, 0, "ok", "ok"),
      Trade(0, "BUY", A_ETH, A_EUR, 2, 1, 0, "ok", "ok"),
      Trade(0, "SELL", A_ETH, A_BTC, 1, 2, 1, "ok", "ok"),
      Trade(0, "SETTLEMENT_SELL", A_ETH, A_BTC, 1, 2, 1, "ok", "ok"),
      Trade(0, "SETTLEMENT_BUY", A_ETH, A_BTC, 1, 2, 1, "ok", "ok")>>

InitSettlement == InitWith(ListedStreams(ItemsAtEnds(SettlementTemplates), MaxActions), SortWindows, PassSettings, {{}})

SpecSettlement == InitSettlement /\ [][Next]_vars

\* ------------------------------------------------------------------ claims

\* The position in the sorted actions of the first action past end_ts, and
\* one past the last position when there is none.
RECURSIVE FirstPast(_, _, _)
FirstPast(sorted, given_end_ts, k) ==
    IF k > Len(sorted) THEN k
    ELSE IF action_get_timestamp(sorted[k]) > given_end_ts THEN k
    ELSE FirstPast(sorted, given_end_ts, k + 1)

Cutoff == FirstPast(actions, end_ts, 1)

InRun == pc \in {"loop", "yield", "finish"}

\* C1: within one process_history run currently_processing_timestamp never
\* decreases, whatever the order of the five collections: the call sets it to
\* the timestamp of the first sorted action (0 for an empty history), and
\* every step of the pass leaves it at a value >= the one it held.
C1_TimestampNeverDecreases ==
    [][/\ InRun =>
            self'.currently_processing_timestamp >= self.currently_processing_timestamp
       /\ (~InRun /\ pc' = "loop") =>
            self'.currently_processing_timestamp = first_timestamp(actions')]_vars

\* C1 witness: the collections were not in timestamp order, and the pass has
\* moved currently_processing_timestamp past the value it started from.
C1_Witness ==
    /\ pc = "loop"
    /\ actions # concatenate(trade_history, loan_history, asset_movements,
                             eth_transactions, defi_events)
    /\ self.currently_processing_timestamp > self.started_processing_timestamp
    /\ \E k \in 1..Len(trace) : trace[k].path \in PriceErrors

Min(a, b) == IF a <= b THEN a ELSE b

Last(s) == s[Len(s)]

\* The pass has left the loop normally (by the break or at the end).
LoopOver == pc \in {"finish", "returned"}

\* The loop is about to hand actions[i] to process_action.
AtAction == pc = "loop" /\ i <= Len(actions)

\* C2: end_ts is a hard stop.  The pass never goes beyond the first action
\* past end_ts; process_action answers "stop" for exactly that action, and
\* that iteration changes nothing of the Accountant (no total, no audit
\* record, no message) and ends the loop; no audit record is stamped later
\* than end_ts; and when the loop is over every action before the first one
\* past end_ts, those stamped end_ts included, has been visited.
C2_EndTsHardStop ==
    /\ [](/\ Len(trace) <= Cutoff
          /\ \A k \in 1..Len(trace) :
                /\ (trace[k].path = "stop") <=> (action_get_timestamp(actions[k]) > end_ts)
                /\ trace[k].path = "stop" => trace[k].messages = 0
          /\ \A k \in 1..Len(self.csvexporter.all_events) :
                self.csvexporter.all_events[k].timestamp <= end_ts
          /\ LoopOver => Len(trace) = Min(Cutoff, Len(actions)))
    /\ [][(AtAction /\ action_get_timestamp(actions[i]) > end_ts)
            => (self' = self /\ pc' = "finish")]_vars

\* C2 witness: the call returned after stopping at an action past end_ts that
\* is followed by another one, having accounted an action stamped end_ts.
C2_Witness ==
    /\ pc = "returned"
    /\ 1 < Cutoff
    /\ Cutoff < Len(actions)
    /\ Len(trace) = Cutoff
    /\ action_get_timestamp(actions[Cutoff - 1]) = end_ts
    /\ trace[Cutoff - 1].path = "dispatched"
    /\ Len(self.csvexporter.all_events) > 0

\* C3: a recoverable price failure costs one error message and nothing else
\* of the run.  The iteration whose process_action raises one of the three
\* price errors adds exactly one message, an error for that failure, and goes
\* on with the next action; the call never ends by raising; and when the
\* loop is over every action up to the end_ts cutoff has been visited.
C3_PriceFailureSkipsOneAction ==
    /\ [](/\ pc # "raised"
          /\ \A k \in 1..Len(trace) :
                trace[k].path \in PriceErrors => trace[k].messages = 1
          /\ LoopOver => Len(trace) = Min(Cutoff, Len(actions)))
    /\ [][(AtAction /\ Len(trace') = Len(trace) + 1 /\ Last(trace').path \in PriceErrors)
            => /\ self'.msg_aggregator =
                     Append(self.msg_aggregator, Message("error", Last(trace').path))
               /\ pc' = "loop"
               /\ i' = i + 1]_vars

\* C3 witness: the call returned a report after two price failures of
\* different kinds, each followed by a later action that was visited.
C3_Witness ==
    /\ pc = "returned"
    /\ Len(trace) = 3
    /\ trace[1].path \in PriceErrors
    /\ trace[2].path \in PriceErrors
    /\ trace[1].path # trace[2].path
    /\ trace[3].path = "dispatched"
    /\ Len(reports) = runs

\* The Accountant after the loop has gone over sorted[k..] from the state s,
\* as Iterate and Resume take it there one action at a time.
RECURSIVE PassFrom(_, _, _, _, _, _, _)
PassFrom(s, sorted, k, given_end_ts, given_prev_time, settings, ignored_assets) ==
    IF k > Len(sorted) THEN s
    ELSE LET b == loop_body(s, sorted[k], given_end_ts, given_prev_time, settings,
                            ignored_assets)
         IN IF b.next \in {"raise", "break"} THEN b.self
            ELSE PassFrom(b.self, sorted, k + 1, given_end_ts, b.prev_time, settings,
                          ignored_assets)

\* The report of a call of process_history on this Accountant over the given
\* sorted actions.
ReportOver(sorted) ==
    report_of(PassFrom(Customize(reset_run_state(self, start_ts), db_settings), sorted, 1,
                       end_ts, 0, db_settings, db.ignored_assets))

Resolves(action) == action.res \notin AssetErrors

\* C4: an action whose asset resolution fails is skipped with exactly one
\* message.  Every visited action of the window whose assets do not resolve
\* takes the resolution-error path; its iteration adds exactly one message (a
\* warning, an error for a malformed asset), advances
\* currently_processing_timestamp and changes nothing else of the Accountant
\* (no ledger operation, no total, no audit record), and the loop goes on; the
\* call never raises; and the report returned is the report of the same
\* history without the actions that do not resolve.
C4_UnresolvedAssetSkipped ==
    /\ [](/\ pc # "raised"
          /\ \A k \in 1..Len(trace) :
                /\ (~Resolves(actions[k]) /\ action_get_timestamp(actions[k]) <= end_ts)
                       <=> trace[k].path \in AssetErrors
                /\ trace[k].path \in AssetErrors => trace[k].messages = 1
          /\ pc = "returned" => Last(reports) = ReportOver(SelectSeq(actions, Resolves)))
    /\ [][(AtAction /\ Len(trace') = Len(trace) + 1 /\ Last(trace').path \in AssetErrors)
            => /\ self' = AddMessage(
                     [self EXCEPT !.currently_processing_timestamp =
                                      action_get_timestamp(actions[i])],
                     IF actions[i].res = "DeserializationError" THEN "error" ELSE "warning",
                     actions[i].res)
               /\ pc' \in {"loop", "yield"}
               /\ i' = i + 1]_vars

\* C4 witness: the call returned a report after a trade with an unsupported
\* asset was skipped between two trades that were accounted.
C4_Witness ==
    /\ pc = "returned"
    /\ Len(trace) = 3
    /\ trace[1].path = "dispatched"
    /\ trace[2].path = "UnsupportedAsset"
    /\ trace[3].path = "dispatched"
    /\ actions[1].kind = "trade"
    /\ actions[3].kind = "trade"
    /\ Len(self.msg_aggregator) = runs
    /\ Len(Last(reports).all_events) = 2

\* The sum of the six other terms of a report's totals, from its strings.
SumOtherActions(o) ==
    Val(o.margin_positions_profit_loss) + Val(o.defi_profit_loss) + Val(o.loan_profit)
    - Val(o.settlement_losses) - Val(o.asset_movement_fees)
    - Val(o.ethereum_transaction_gas_costs)

\* C5: in every report process_history returned, total_taxable_profit_loss
\* is taxable_trade_pl + margin_pl + defi_pl + loan_profit - settlement_losses
\* - asset_movement_fees - eth_transactions_gas_costs and total_profit_loss is
\* general_trade_pl plus the same six terms, so the two totals differ by
\* general_trade_pl - taxable_trade_pl; and the terms of the report are the
\* values the running totals hold when the pass is over.
C5_ReportTotals ==
    /\ \A n \in 1..Len(reports) :
          LET o == reports[n].overview
          IN /\ Val(o.total_taxable_profit_loss) =
                    Val(o.taxable_trade_profit_loss) + SumOtherActions(o)
             /\ Val(o.total_profit_loss) =
                    Val(o.general_trade_profit_loss) + SumOtherActions(o)
             /\ Val(o.total_profit_loss) - Val(o.total_taxable_profit_loss) =
                    Val(o.general_trade_profit_loss) - Val(o.taxable_trade_profit_loss)
    /\ pc = "returned" =>
          LET o == Last(reports).overview
          IN /\ Val(o.taxable_trade_profit_loss) = self.events.taxable_trade_profit_loss
             /\ Val(o.general_trade_profit_loss) = self.events.general_trade_profit_loss
             /\ Val(o.margin_positions_profit_loss) = self.events.margin_positions_profit_loss
             /\ Val(o.defi_profit_loss) = self.events.defi_profit_loss
             /\ Val(o.loan_profit) = self.events.loan_profit
             /\ Val(o.settlement_losses) = self.events.settlement_losses
             /\ Val(o.asset_movement_fees) = self.asset_movement_fees
             /\ Val(o.ethereum_transaction_gas_costs) = self.eth_transactions_gas_costs

\* C5 witness: a report whose two totals differ, one of them negative, with
\* transfer fees in it.
C5_Witness ==
    /\ pc = "returned"
    /\ Val(Last(reports).overview.total_profit_loss)
           # Val(Last(reports).overview.total_taxable_profit_loss)
    /\ Val(Last(reports).overview.total_taxable_profit_loss) < 0
    /\ self.asset_movement_fees > 0

\* C6: a second process_history call on the same Accountant with the same
\* arguments, settings, ignored assets and price answers returns the report
\* the first call returned, totals and audit trail alike, and starts from the
\* run state the first call started from.
C6_RerunIdempotent ==
    /\ \A m, n \in 1..Len(reports) : reports[m] = reports[n]
    /\ (pc = "loop" /\ i = 1) =>
          /\ self.last_gas_price = DefaultGasPrice
          /\ self.asset_movement_fees = 0
          /\ self.eth_transactions_gas_costs = 0
          /\ self.start_ts = start_ts
          /\ self.csvexporter.all_events = <<>>
          /\ self.events = Customize([self EXCEPT !.events = NewEvents(A_EUR)],
                                     db_settings).events

\* C6 witness: the second call returned after a first call that was cut short
\* by end_ts, skipped an action on a price failure, and left a carried-forward
\* gas price and gas costs behind.
C6_Witness ==
    /\ pc = "returned"
    /\ Len(reports) = 2
    /\ Len(trace) = 3
    /\ trace[1].path = "dispatched"
    /\ trace[2].path \in PriceErrors
    /\ trace[3].path = "stop"
    /\ self.last_gas_price # DefaultGasPrice
    /\ self.eth_transactions_gas_costs > 0

\* The real gas price of the last transaction before position k of the
\* sorted actions that carried one, and the default when there is none.
RECURSIVE PrecedingRealGasPrice(_, _)
PrecedingRealGasPrice(sorted, k) ==
    IF k <= 1 THEN DefaultGasPrice
    ELSE IF sorted[k - 1].kind = "ethereum_transaction" /\ sorted[k - 1].gas_price # NoGasPrice
    THEN sorted[k - 1].gas_price
    ELSE PrecedingRealGasPrice(sorted, k - 1)

\* The iteration on actions[i] accounts it: it adds an audit record.
Accounts == AtAction /\ Len(self'.csvexporter.all_events) = Len(self.csvexporter.all_events) + 1

\* C7: every accounted on-chain transaction whose gas price is unavailable
\* (-1) is costed with the real gas price of the nearest earlier transaction
\* of the sorted stream that carried one, or with the default when no earlier
\* transaction carried one.
C7_GasPriceCarriedForward ==
    [][(Accounts /\ actions[i].kind = "ethereum_transaction"
            /\ actions[i].gas_price = NoGasPrice)
        => Last(self'.csvexporter.all_events).amount =
               actions[i].gas_used * PrecedingRealGasPrice(actions, i)]_vars

\* Whether the action at position k of the sorted actions is a transfer or a
\* transaction inside the window whose policy is on and whose price lookup
\* succeeds.
Counted(k, kind) ==
    /\ actions[k].kind = kind
    /\ action_get_timestamp(actions[k]) >= start_ts
    /\ action_get_timestamp(actions[k]) <= end_ts
    /\ actions[k].price = "ok"
    /\ IF kind = "asset_movement"
       THEN db_settings.account_for_assets_movements /\ actions[k].asset # A_KFEE
       ELSE db_settings.include_gas_costs

\* The fee of the transfer at position k in the profit currency.
FeeCost(k) == actions[k].fee * Rate(actions[k].fee_asset, A_EUR, action_get_timestamp(actions[k]))

\* The sum of the fees of the counted transfers among the first n actions.
RECURSIVE FeesUpTo(_)
FeesUpTo(n) ==
    IF n = 0 THEN 0
    ELSE FeesUpTo(n - 1) + (IF Counted(n, "asset_movement") THEN FeeCost(n) ELSE 0)

\* The sum of the audited gas costs, eth_burned_as_gas x rate.
RECURSIVE AuditedCosts(_, _)
AuditedCosts(records, type) ==
    IF records = <<>> THEN 0
    ELSE AuditedCosts(Tail(records), type)
         + (IF Head(records).type = type THEN Head(records).amount * Head(records).rate ELSE 0)

\* The timestamps of the counted actions among the first n, in order.
RECURSIVE CountedTimestamps(_)
CountedTimestamps(n) ==
    IF n = 0 THEN <<>>
    ELSE IF Counted(n, "asset_movement") \/ Counted(n, "ethereum_transaction")
    THEN Append(CountedTimestamps(n - 1), action_get_timestamp(actions[n]))
    ELSE CountedTimestamps(n - 1)

RECURSIVE RecordTimestamps(_)
RecordTimestamps(records) ==
    IF records = <<>> THEN <<>>
    ELSE <<Head(records).timestamp>> \o RecordTimestamps(Tail(records))

\* C8: start_ts gates the monetary effects.  At every point of a run the
\* audit trail holds one record for each visited transfer and transaction
\* with start_ts <= timestamp <= end_ts whose policy is on and whose price
\* lookup succeeded, in order, and no other (none for a timestamp < start_ts);
\* asset_movement_fees is the sum of the fees of exactly those transfers and
\* eth_transactions_gas_costs the sum of the costs of exactly those records.
C8_StartTsGatesCosts ==
    runs > 0 =>
        /\ RecordTimestamps(self.csvexporter.all_events) = CountedTimestamps(Len(trace))
        /\ \A k \in 1..Len(self.csvexporter.all_events) :
              self.csvexporter.all_events[k].timestamp >= start_ts
        /\ self.asset_movement_fees = FeesUpTo(Len(trace))
        /\ self.asset_movement_fees =
              AuditedCosts(self.csvexporter.all_events, "asset_movement")
        /\ self.eth_transactions_gas_costs =
              AuditedCosts(self.csvexporter.all_events, "tx_gas_cost")

\* C8 witness: the call returned having visited a transfer and a transaction
\* before start_ts, which left no trace, and a transfer inside the window,
\* whose fee is the whole of asset_movement_fees.
C8_Witness ==
    /\ pc = "returned"
    /\ Len(trace) = 3
    /\ actions[1].kind = "asset_movement"
    /\ actions[1].asset = A_BTC
    /\ actions[1].price = "ok"
    /\ action_get_timestamp(actions[1]) < start_ts
    /\ actions[2].kind = "ethereum_transaction"
    /\ actions[2].price = "ok"
    /\ action_get_timestamp(actions[2]) < start_ts
    /\ Counted(3, "asset_movement")
    /\ db_settings.include_gas_costs
    /\ self.asset_movement_fees = FeeCost(3)
    /\ self.eth_transactions_gas_costs = 0
    /\ Len(self.csvexporter.all_events) = 1

\* The kinds of action that go to a Ledger operation.
LedgerKinds == {"trade", "loan", "margin_position", "defi_event"}

\* The amount of an asset the first n sorted actions leave in its buy queue
\* when every trade of them up to end_ts reaches the ledger, whatever
\* start_ts is: a BUY adds its amount, a sale takes its amount from what is
\* there.
RECURSIVE Holding(_, _)
Holding(asset, n) ==
    IF n = 0 THEN 0
    ELSE LET a == actions[n]
             h == Holding(asset, n - 1)
         IN IF a.kind # "trade" \/ a.base_asset # asset \/ action_get_timestamp(a) > end_ts
            THEN h
            ELSE IF a.trade_type = "BUY" THEN h + a.amount
            ELSE IF a.trade_type \in {"SELL", "SETTLEMENT_SELL"}
            THEN (IF h >= a.amount THEN h - a.amount ELSE 0)
            ELSE h

RECURSIVE LotAmounts(_)
LotAmounts(buys) ==
    IF buys = <<>> THEN 0 ELSE Head(buys).amount + LotAmounts(Tail(buys))

\* C9: start_ts does not filter the pass.  Every visited trade, loan, margin
\* position and DeFi event with timestamp <= end_ts whose assets resolve and
\* are not ignored (and whose price lookups succeed) is dispatched, also when
\* its timestamp is < start_ts; a dispatched BUY leaves its lot at the end of
\* the buy queue whatever start_ts is; and at every point of the pass the buy
\* queue holds what all the visited trades, those before start_ts included,
\* have left in it.
C9_StartTsDoesNotFilter ==
    /\ [](runs > 0 =>
            /\ \A k \in 1..Len(trace) :
                  (/\ actions[k].kind \in LedgerKinds
                   /\ action_get_timestamp(actions[k]) <= end_ts
                   /\ Resolves(actions[k])
                   /\ actions[k].res # "UnknownEthereumToken"
                   /\ action_get_assets(actions[k])[1] \notin db.ignored_assets
                   /\ action_get_assets(actions[k])[2] \notin db.ignored_assets
                   /\ actions[k].price = "ok")
                  => trace[k].path = "dispatched"
            /\ LotAmounts(Buys(self.events, A_BTC)) = Holding(A_BTC, Len(trace)))
    /\ [][(AtAction /\ actions[i].kind = "trade" /\ actions[i].trade_type = "BUY"
              /\ action_get_timestamp(actions[i]) <= end_ts)
          => /\ Buys(self'.events, actions[i].base_asset) # <<>>
             /\ Last(Buys(self'.events, actions[i].base_asset)).timestamp =
                    action_get_timestamp(actions[i])
             /\ Last(Buys(self'.events, actions[i].base_asset)).amount = actions[i].amount]_vars

\* C9 witness: a BUY before start_ts and a SELL inside the window have been
\* processed; the sale was matched against the lot bought before start_ts,
\* whose remainder is the buy queue.
C9_Witness ==
    /\ pc = "returned"
    /\ Len(trace) = 2
    /\ start_ts = 1
    /\ actions[1].kind = "trade"
    /\ actions[1].trade_type = "BUY"
    /\ action_get_timestamp(actions[1]) = 0
    /\ actions[2].kind = "trade"
    /\ actions[2].trade_type = "SELL"
    /\ action_get_timestamp(actions[2]) >= start_ts
    /\ trace[1].path = "dispatched"
    /\ trace[2].path = "dispatched"
    /\ Buys(self.events, A_BTC) = <<Lot(1, 2, 0)>>
    /\ self.events.general_trade_profit_loss = 3 - 2 - 1

\* The loop is about to hand process_action a trade inside the window whose
\* type is none of the four it knows.
AtUnknownTradeType ==
    /\ AtAction
    /\ actions[i].kind = "trade"
    /\ actions[i].trade_type \notin TradeTypes
    /\ action_get_timestamp(actions[i]) <= end_ts

\* The iteration leaves the call with an exception: no report is returned for
\* this call and no message is added.
Aborts ==
    /\ pc' = "raised"
    /\ reports' = reports
    /\ self'.msg_aggregator = self.msg_aggregator

\* C10, as stated: whenever the pass reaches (timestamp <= end_ts) a trade
\* whose trade_type is none of BUY, SELL, SETTLEMENT_SELL, SETTLEMENT_BUY,
\* process_history aborts with an error instead of returning a report, and
\* no warning is emitted for that trade.
C10_UnknownTradeTypeFatal_AsStated ==
    [][AtUnknownTradeType => Aborts]_vars

\* C10, amended: a trade of unknown type inside the window whose assets
\* resolve, are not an unknown token and are not ignored aborts the call:
\* the AssertionError leaves process_history, nothing is changed but
\* currently_processing_timestamp, no message is added, and no report is
\* returned for the call.  A trade of unknown type whose assets do not
\* resolve or are ignored never reaches the check of the type: it is skipped
\* as any other such action is, and the pass goes on.
C10_UnknownTradeTypeFatal ==
    /\ [][AtUnknownTradeType =>
            IF /\ Resolves(actions[i])
               /\ actions[i].res # "UnknownEthereumToken"
               /\ action_get_assets(actions[i])[1] \notin db.ignored_assets
               /\ action_get_assets(actions[i])[2] \notin db.ignored_assets
            THEN /\ Aborts
                 /\ Last(trace').path = "unknown_trade_type"
                 /\ self' = [self EXCEPT !.currently_processing_timestamp =
                                            action_get_timestamp(actions[i])]
            ELSE /\ pc' \in {"loop", "yield"}
                 /\ i' = i + 1
                 /\ Last(trace').path \in AssetErrors \cup {"unknown_token", "ignored"}]_vars
    /\ [](pc = "raised" => Len(reports) < runs /\ Last(trace).path = "unknown_trade_type")

\* C10 witness: after a BUY was accounted, a resolvable, not ignored trade of
\* unknown type made the call raise; no report was returned and the only
\* trace of the run is the BUY's.
C10_Witness ==
    /\ pc = "raised"
    /\ Len(trace) = 2
    /\ trace[1].path = "dispatched"
    /\ actions[2].trade_type = "OTHER"
    /\ trace[2] = [path |-> "unknown_trade_type", messages |-> 0]
    /\ reports = <<>>
    /\ self.msg_aggregator = <<>>
    /\ Len(self.csvexporter.all_events) = 1

\* The action at position k of the sorted actions went through asset
\* resolution: it is inside the window and its assets resolved.
ReachedIgnoreCheck(k) ==
    /\ action_get_timestamp(actions[k]) <= end_ts
    /\ Resolves(actions[k])
    /\ actions[k].res # "UnknownEthereumToken"

\* C11: the ignored-assets set is read once per run.  The actions one call
\* has visited were all checked against the same set: there is one set of
\* assets such that the visited actions skipped as ignored are exactly those
\* with an asset in it, whatever another task did to the ignore list while
\* the call slept.
C11_IgnoredAssetsReadOncePerRun ==
    runs > 0 =>
        \E ignored_assets \in SUBSET Assets :
            \A k \in 1..Len(trace) :
                ReachedIgnoreCheck(k) =>
                    (trace[k].path = "ignored"
                        <=> (\/ action_get_assets(actions[k])[1] \in ignored_assets
                             \/ action_get_assets(actions[k])[2] \in ignored_assets))

\* The lots the BUY trades among the first n sorted actions created for the
\* asset, in the order of their acquisition.
RECURSIVE Acquired(_, _)
Acquired(asset, n) ==
    IF n = 0 THEN <<>>
    ELSE LET a == actions[n]
         IN IF /\ a.kind = "trade"
               /\ a.trade_type = "BUY"
               /\ a.base_asset = asset
               /\ action_get_timestamp(a) <= end_ts
            THEN Append(Acquired(asset, n - 1),
                        Lot(a.amount, Rate(a.quote_asset, A_EUR, a.timestamp) * a.rate, a.timestamp))
            ELSE Acquired(asset, n - 1)

\* The lots unit by unit: the rate of every unit of the asset, oldest first.
RECURSIVE UnitRates(_)
UnitRates(lots) ==
    IF lots = <<>> THEN <<>>
    ELSE [k \in 1..Head(lots).amount |-> Head(lots).rate] \o UnitRates(Tail(lots))

\* What the units number from + 1 to from + n cost; a unit never bought
\* costs nothing.
UnitsCost(units, from, n) ==
    SumSeq([k \in 1..n |-> IF from + k <= Len(units) THEN units[from + k] ELSE 0])

\* `remaining` is a suffix of `acquired`: the lots from some position on,
\* untouched but for the first, of which a part is left.
IsSuffixOf(remaining, acquired) ==
    \E j \in 1..(Len(acquired) + 1) :
        /\ Len(remaining) = Len(acquired) - j + 1
        /\ \A m \in 1..Len(remaining) :
              /\ remaining[m].rate = acquired[j + m - 1].rate
              /\ remaining[m].timestamp = acquired[j + m - 1].timestamp
              /\ IF m = 1
                 THEN remaining[m].amount > 0 /\ remaining[m].amount <= acquired[j].amount
                 ELSE remaining[m].amount = acquired[j + m - 1].amount

\* C12: FIFO cost-basis matching.  At every point of the pass the remaining
\* lots of the asset are a suffix of its acquisition order (only the oldest
\* remaining lot may be reduced) and get_calculated_asset_amount returns the
\* sum of the remaining amounts, which is what was bought less what was sold;
\* and every SELL realizes its proceeds less the cost of the oldest units not
\* yet sold, at the rates of the lots they were bought in, less its fee.
C12_FifoMatching ==
    /\ [](runs > 0 =>
            /\ IsSuffixOf(Buys(self.events, A_BTC), Acquired(A_BTC, Len(trace)))
            /\ Acquired(A_BTC, Len(trace)) # <<>> =>
                  /\ get_calculated_asset_amount(self, A_BTC) = Holding(A_BTC, Len(trace))
                  /\ get_calculated_asset_amount(self, A_BTC) =
                        LotAmounts(Buys(self.events, A_BTC)))
    /\ [][(AtAction /\ actions[i].kind = "trade" /\ actions[i].trade_type = "SELL"
              /\ action_get_timestamp(actions[i]) <= end_ts)
          => LET bought == Acquired(actions[i].base_asset, i - 1)
                 sold == LotAmounts(bought) - Holding(actions[i].base_asset, i - 1)
             IN self'.events.general_trade_profit_loss - self.events.general_trade_profit_loss
                   = actions[i].amount * actions[i].rate
                     - UnitsCost(UnitRates(bought), sold, actions[i].amount)
                     - actions[i].fee]_vars

\* C12 witness: lot B1 (1 at rate 2) and lot B2 (2 at rate 3) were bought, a
\* sale of 1 consumed exactly B1 (4 - 2 - 1 realized) and a further sale of 2
\* consumed B2 (10 - 6 realized): nothing is left.
C12_Witness ==
    /\ pc = "returned"
    /\ Len(trace) = 4
    /\ Acquired(A_BTC, 2) = <<Lot(1, 2, 0), Lot(2, 3, 1)>>
    /\ actions[3].trade_type = "SELL"
    /\ actions[3].amount = 1
    /\ actions[4].trade_type = "SELL"
    /\ actions[4].amount = 2
    /\ \A k \in 1..4 : trace[k].path = "dispatched"
    /\ Buys(self.events, A_BTC) = <<>>
    /\ get_calculated_asset_amount(self, A_BTC) = 0
    /\ self.events.general_trade_profit_loss = (4 - 2 - 1) + (10 - 6)

\* C13: when the taxfree_after_period setting is the disabling sentinel (-1)
\* the ledger is configured with no tax-free period, and with crypto-to-crypto
\* trades included taxable_trade_pl equals general_trade_pl at every point of
\* the pass.
C13_TaxfreeDisabled ==
    (runs > 0 /\ db_settings.taxfree_after_period = TaxfreeDisabled) =>
        /\ self.events.taxfree_after_period = {}
        /\ db_settings.include_crypto2crypto => taxable_trade_pl(self) = general_trade_pl(self)

\* C13 witness: with the period disabled, a lot bought at 0 was sold at 2 for
\* the profit currency and for another asset; both totals are the same
\* amount, not zero.
C13_Witness ==
    /\ pc = "returned"
    /\ db_settings.taxfree_after_period = TaxfreeDisabled
    /\ db_settings.include_crypto2crypto
    /\ Len(trace) = 3
    /\ \A k \in 1..3 : trace[k].path = "dispatched"
    /\ actions[1].trade_type = "BUY"
    /\ action_get_timestamp(actions[1]) = 0
    /\ actions[2].trade_type = "SELL"
    /\ actions[2].quote_asset = A_EUR
    /\ action_get_timestamp(actions[2]) = 2
    /\ actions[3].trade_type = "SELL"
    /\ actions[3].quote_asset = A_ETH
    /\ self.events.taxfree_after_period = {}
    /\ general_trade_pl(self) # 0
    /\ taxable_trade_pl(self) = general_trade_pl(self)

\* The actions of a sequence stamped t, in the order of the sequence.
StampedAt(sequence, t) == SelectSeq(sequence, LAMBDA a : action_get_timestamp(a) = t)

\* C14: the five collections are concatenated in the order trades, loans,
\* transfers, on-chain transactions, DeFi events and stable-sorted ascending
\* by timestamp.  The sorted actions are in non-decreasing timestamp order
\* for any input order; the actions of one timestamp are in the order of the
\* concatenation (collection order first, then input order within a
\* collection); and the pass visits the sorted actions one after the other.
C14_StableSortOfConcatenation ==
    runs > 0 =>
        /\ Len(actions) = Len(trade_history) + Len(loan_history) + Len(asset_movements)
                          + Len(eth_transactions) + Len(defi_events)
        /\ \A k \in 1..(Len(actions) - 1) :
              action_get_timestamp(actions[k]) <= action_get_timestamp(actions[k + 1])
        /\ \A t \in Timestamps :
              StampedAt(actions, t) =
                  StampedAt(trade_history, t) \o StampedAt(loan_history, t)
                  \o StampedAt(asset_movements, t) \o StampedAt(eth_transactions, t)
                  \o StampedAt(defi_events, t)
        /\ Len(trace) \in {i - 1, i}
        /\ \A k \in 1..Len(trace) : trace[k].path = "dispatched"

\* C14 witness: a DeFi event, last in the concatenation, was visited first,
\* and a margin position and a trade of one timestamp, given in that order
\* in the trade collection after a later trade, were visited in that order.
C14_Witness ==
    /\ pc = "returned"
    /\ Len(trace) = 3
    /\ Len(trade_history) = 2
    /\ trade_history[1].kind = "margin_position"
    /\ trade_history[2].kind = "trade"
    /\ Len(defi_events) = 1
    /\ actions = <<defi_events[1], trade_history[1], trade_history[2]>>
    /\ action_get_timestamp(actions[1]) < action_get_timestamp(actions[2])
    /\ action_get_timestamp(actions[2]) = action_get_timestamp(actions[3])

\* An action a policy turns off: one of its assets is ignored, it is a
\* transaction and gas costs are not accounted, or it is a transfer and
\* transfers are not accounted or its asset is the fee-only unit.
PolicyNoOp(action) ==
    \/ action_get_assets(action)[1] \in db.ignored_assets
    \/ action_get_assets(action)[2] \in db.ignored_assets
    \/ action.kind = "ethereum_transaction" /\ ~db_settings.include_gas_costs
    \/ action.kind = "asset_movement"
          /\ (~db_settings.account_for_assets_movements \/ action.asset = A_KFEE)

\* C15: policy-driven no-ops are silent and effect-free.  The iteration on an
\* action of the window whose assets resolve and that a policy turns off
\* changes nothing of the Accountant but currently_processing_timestamp (no
\* message, no audit record, asset_movement_fees, eth_transactions_gas_costs,
\* last_gas_price and the ledger as they were), and the pass goes on.
C15_PolicyNoOpsSilent ==
    [][(AtAction /\ ReachedIgnoreCheck(i) /\ PolicyNoOp(actions[i]))
        => /\ self' = [self EXCEPT !.currently_processing_timestamp =
                                      action_get_timestamp(actions[i])]
           /\ Last(trace').messages = 0
           /\ Last(trace').path \in {"ignored", "dispatched"}
           /\ pc' \in {"loop", "yield"}
           /\ i' = i + 1]_vars

\* C15 witness: with gas-cost and transfer accounting off, a transaction with
\* a real gas price, a transfer and a transfer of the fee-only unit were
\* visited; the run state is as the call set it up.
C15_Witness ==
    /\ pc = "returned"
    /\ ~db_settings.include_gas_costs
    /\ ~db_settings.account_for_assets_movements
    /\ db.ignored_assets = {}
    /\ Len(trace) = 3
    /\ \E k \in 1..3 : actions[k].kind = "ethereum_transaction" /\ actions[k].gas_price = 4
    /\ \E k \in 1..3 : actions[k].kind = "asset_movement" /\ actions[k].asset = A_KFEE
    /\ \E k \in 1..3 : actions[k].kind = "asset_movement" /\ actions[k].asset = A_BTC
    /\ \A k \in 1..3 : trace[k] = [path |-> "dispatched", messages |-> 0]
    /\ self.last_gas_price = DefaultGasPrice
    /\ self.asset_movement_fees = 0
    /\ self.eth_transactions_gas_costs = 0
    /\ self.csvexporter.all_events = <<>>
    /\ self.msg_aggregator = <<>>
    /\ self.currently_processing_timestamp = action_get_timestamp(actions[3])

\* The iteration on actions[i] ends in a price failure: the action is skipped
\* with an error message.
PriceFailure == AtAction /\ Last(trace').path \in PriceErrors

\* C16, as stated: after an action skipped for a price failure
\* asset_movement_fees, eth_transactions_gas_costs, last_gas_price and the
\* audit trail are what they were before the action.
C16_PriceFailureLeavesState_AsStated ==
    [][PriceFailure =>
        /\ self'.asset_movement_fees = self.asset_movement_fees
        /\ self'.eth_transactions_gas_costs = self.eth_transactions_gas_costs
        /\ self'.last_gas_price = self.last_gas_price
        /\ self'.csvexporter.all_events = self.csvexporter.all_events]_vars

\* C16, amended: after an action skipped for a price failure
\* asset_movement_fees, eth_transactions_gas_costs, the audit trail and the
\* ledger are what they were before the action; one error message was added
\* and currently_processing_timestamp advanced; and last_gas_price is what it
\* was unless the action is a transaction with a real gas price, which is
\* carried forward although the transaction was not accounted.
C16_PriceFailureLeavesState ==
    [][PriceFailure =>
        /\ self' = [self EXCEPT
                      !.currently_processing_timestamp = action_get_timestamp(actions[i]),
                      !.msg_aggregator = Append(@, Message("error", Last(trace').path)),
                      !.last_gas_price =
                          IF /\ actions[i].kind = "ethereum_transaction"
                             /\ actions[i].gas_price # NoGasPrice
                          THEN actions[i].gas_price ELSE @]
        /\ pc' = "loop"
        /\ i' = i + 1]_vars

\* C16 witness: a transaction with gas price 4 was skipped for a price
\* failure and the next transaction, whose gas price is unavailable, was
\* costed with 4: the price was carried forward and nothing else recorded.
C16_Witness ==
    /\ pc = "returned"
    /\ Len(trace) = 2
    /\ trace[1] = [path |-> "RemoteError", messages |-> 1]
    /\ actions[1].kind = "ethereum_transaction"
    /\ actions[1].gas_price = 4
    /\ trace[2].path = "dispatched"
    /\ actions[2].kind = "ethereum_transaction"
    /\ actions[2].gas_price = NoGasPrice
    /\ self.last_gas_price = 4
    /\ Len(self.csvexporter.all_events) = 1
    /\ self.csvexporter.all_events[1].amount = actions[2].gas_used * 4

\* The audit record type of a kind of action.
RecordType(kind) == IF kind = "asset_movement" THEN "asset_movement" ELSE "tx_gas_cost"

\* The total a kind of action is accounted in.
CostTotal(s, kind) ==
    IF kind = "asset_movement" THEN s.asset_movement_fees ELSE s.eth_transactions_gas_costs

\* C17: the totals reconcile with the audit trail at every point of a run.
\* asset_movement_fees is the sum of fee x rate over the asset-movement
\* records in the audit trail and eth_transactions_gas_costs the sum of
\* eth_burned_as_gas x rate over its gas-cost records; and the iteration on a
\* transfer or a transaction adds exactly one record, of its type and
\* timestamp and worth what it adds to its total, when the action is
\* accounted, and no record and nothing to the totals when it is skipped.
C17_TotalsReconcileWithAudit ==
    /\ [](runs > 0 =>
            \A kind \in {"asset_movement", "ethereum_transaction"} :
                CostTotal(self, kind) =
                    SumSeq([k \in 1..Len(self.csvexporter.all_events) |->
                              IF self.csvexporter.all_events[k].type = RecordType(kind)
                              THEN self.csvexporter.all_events[k].amount
                                   * self.csvexporter.all_events[k].rate
                              ELSE 0]))
    /\ [][(AtAction /\ actions[i].kind \in {"asset_movement", "ethereum_transaction"})
          => IF Counted(i, actions[i].kind)
             THEN /\ Len(self'.csvexporter.all_events) = Len(self.csvexporter.all_events) + 1
                  /\ SubSeq(self'.csvexporter.all_events, 1, Len(self.csvexporter.all_events))
                        = self.csvexporter.all_events
                  /\ Last(self'.csvexporter.all_events).type = RecordType(actions[i].kind)
                  /\ Last(self'.csvexporter.all_events).timestamp =
                        action_get_timestamp(actions[i])
                  /\ Last(self'.csvexporter.all_events).amount
                        * Last(self'.csvexporter.all_events).rate
                        = CostTotal(self', actions[i].kind) - CostTotal(self, actions[i].kind)
             ELSE /\ self'.csvexporter.all_events = self.csvexporter.all_events
                  /\ self'.asset_movement_fees = self.asset_movement_fees
                  /\ self'.eth_transactions_gas_costs = self.eth_transactions_gas_costs]_vars

\* C17 witness: a transaction and a transfer were accounted and a transaction
\* was skipped for a price failure; the trail holds two records, and each
\* total is what its record is worth.
C17_Witness ==
    /\ pc = "returned"
    /\ Len(trace) = 3
    /\ \E k \in 1..3 : trace[k].path = "RemoteError" /\ actions[k].kind = "ethereum_transaction"
    /\ \E k \in 1..3 : trace[k].path = "dispatched" /\ Counted(k, "ethereum_transaction")
    /\ \E k \in 1..3 : trace[k].path = "dispatched" /\ Counted(k, "asset_movement")
    /\ Len(self.csvexporter.all_events) = 2
    /\ self.asset_movement_fees > 0
    /\ self.eth_transactions_gas_costs > 0
    /\ \A k \in 1..2 :
          self.csvexporter.all_events[k].amount * self.csvexporter.all_events[k].rate
              = CostTotal(self, IF self.csvexporter.all_events[k].type = "asset_movement"
                                THEN "asset_movement" ELSE "ethereum_transaction")

\* The settings the Accountant works with: the profit currency and the
\* policies _customize gave the ledger, and the settings process_history holds.
SettingsInUse ==
    [main_currency |-> self.profit_currency,
     ledger_currency |-> self.events.profit_currency,
     include_crypto2crypto |-> self.events.include_crypto2crypto,
     taxfree_after_period |-> self.events.taxfree_after_period,
     account_for_assets_movements |-> self.events.account_for_assets_movements,
     db_settings |-> db_settings]

\* C18: the settings are read once at run start and stay fixed for the whole
\* run.  The call takes the five settings from the store as it is then; no
\* later step of the run changes the settings in use, whatever another task
\* does to the store while the call sleeps; and a transaction or a transfer
\* of the window that is not ignored and whose price lookup succeeds is
\* accounted exactly when the setting read at run start says so.
C18_SettingsReadOncePerRun ==
    [][/\ (~InRun /\ pc' = "loop") =>
            SettingsInUse' =
                [main_currency |-> db.settings.main_currency,
                 ledger_currency |-> db.settings.main_currency,
                 include_crypto2crypto |-> db.settings.include_crypto2crypto,
                 taxfree_after_period |->
                    IF db.settings.taxfree_after_period = TaxfreeDisabled
                    THEN {} ELSE {db.settings.taxfree_after_period},
                 account_for_assets_movements |-> db.settings.account_for_assets_movements,
                 db_settings |-> db.settings]
       /\ InRun => SettingsInUse' = SettingsInUse
       /\ (AtAction /\ actions[i].kind \in {"asset_movement", "ethereum_transaction"}
              /\ action_get_assets(actions[i])[1] \notin db.ignored_assets
              /\ Last(trace').path = "dispatched")
          => (Len(self'.csvexporter.all_events) = Len(self.csvexporter.all_events) + 1
                 <=> Counted(i, actions[i].kind))]_vars

\* C18 witness: another task switched gas-cost accounting off in the store
\* while the call slept after its first action, and the last action of the
\* run, a transaction, was accounted all the same, in the profit currency
\* the run started with.
C18_Witness ==
    /\ pc = "returned"
    /\ Len(trace) = 3
    /\ db_settings.include_gas_costs
    /\ ~db.settings.include_gas_costs
    /\ db.settings.main_currency # self.profit_currency
    /\ db.ignored_assets = {}
    /\ actions[3].kind = "ethereum_transaction"
    /\ trace[3].path = "dispatched"
    /\ Last(self.csvexporter.all_events).type = "tx_gas_cost"
    /\ Last(self.csvexporter.all_events).timestamp = action_get_timestamp(actions[3])
    /\ Last(self.csvexporter.all_events).rate = Rate(A_ETH, A_EUR, action_get_timestamp(actions[3]))

\* C19: the ordering assertion of process_action never fails.  In every run,
\* whatever the order of the collections and whichever actions are skipped,
\* the loop hands process_action a prev_time that is 0 or the timestamp of an
\* earlier action of the sorted actions, and so not later than the action's
\* timestamp; a price failure leaves prev_time as it was; and no call ends
\* with the assertion's error.
C19_OrderingAssertionHolds ==
    /\ [](runs > 0 =>
            /\ prev_time = 0 \/ \E k \in 1..Len(trace) : prev_time = action_get_timestamp(actions[k])
            /\ AtAction => prev_time <= action_get_timestamp(actions[i])
            /\ \A k \in 1..Len(trace) : trace[k].path # "not_ascending"
            /\ pc # "raised")
    /\ [][(AtAction /\ Last(trace').path \in PriceErrors) => prev_time' = prev_time]_vars

\* C19 witness: the collections were not in timestamp order; an action was
\* skipped for a price failure, which left prev_time behind its timestamp,
\* and the assertion held for the action after it.
C19_Witness ==
    /\ pc = "loop"
    /\ actions # concatenate(trade_history, loan_history, asset_movements,
                             eth_transactions, defi_events)
    /\ Len(trace) = 3
    /\ trace[1].path = "dispatched"
    /\ trace[2].path \in PriceErrors
    /\ trace[3].path = "dispatched"
    /\ action_get_timestamp(actions[1]) < action_get_timestamp(actions[2])
    /\ prev_time = action_get_timestamp(actions[3])

\* The iteration leaves the ledger, the totals and the audit trail alone: no
\* accounting operation was dispatched.
NothingAccounted ==
    /\ self'.events = self.events
    /\ self'.csvexporter = self.csvexporter
    /\ self'.asset_movement_fees = self.asset_movement_fees
    /\ self'.eth_transactions_gas_costs = self.eth_transactions_gas_costs
    /\ self'.last_gas_price = self.last_gas_price

\* C20: resolution is checked before the ignore list.  An action of the
\* window whose asset resolution fails gets its warning or error message
\* whatever the ignored-assets set holds; only an action whose assets all
\* resolved is skipped silently as ignored, and every resolved action with an
\* ignored asset is; in both cases nothing is accounted.
C20_ResolveBeforeIgnore ==
    [][(AtAction /\ action_get_timestamp(actions[i]) <= end_ts)
        => /\ ~Resolves(actions[i]) =>
                 /\ Last(trace') = [path |-> actions[i].res, messages |-> 1]
                 /\ Last(self'.msg_aggregator).about = actions[i].res
                 /\ NothingAccounted
           /\ Last(trace').path = "ignored" =>
                 /\ Resolves(actions[i])
                 /\ Last(trace').messages = 0
                 /\ NothingAccounted
           /\ (Resolves(actions[i])
                  /\ (\/ action_get_assets(actions[i])[1] \in db.ignored_assets
                      \/ action_get_assets(actions[i])[2] \in db.ignored_assets))
              => Last(trace').path = "ignored"]_vars

\* C20 witness: with ETH ignored, a trade of ETH whose assets did not resolve
\* got its warning and a trade of ETH whose assets resolved was skipped
\* without a word; neither reached the ledger.
C20_Witness ==
    /\ pc = "returned"
    /\ db.ignored_assets = {A_ETH}
    /\ Len(trace) = 2
    /\ actions[1].kind = "trade"
    /\ actions[1].base_asset = A_ETH
    /\ actions[2].kind = "trade"
    /\ actions[2].base_asset = A_ETH
    /\ trace[1] = [path |-> "UnknownAsset", messages |-> 1]
    /\ trace[2] = [path |-> "ignored", messages |-> 0]
    /\ self.msg_aggregator = <<Message("warning", "UnknownAsset")>>
    /\ self.events.events = <<>>
    /\ self.csvexporter.all_events = <<>>

\* The iteration recorded at position k of the trace went on to the end of
\* the loop body: process_action returned, and said to continue.
ReachedEndOfBody(k) ==
    trace[k].path \notin PriceErrors \cup {"stop", "not_ascending", "unknown_trade_type"}

\* The pass so far, iteration by iteration from position k: `counted` is the
\* number of iterations before k that reached the end of the loop body, and
\* `since` the number of iterations since the last sleep (or since the start
\* of the loop).  Gives the largest number of iterations between two
\* consecutive sleeps, and whether the last iteration was followed by one.
RECURSIVE IterationsBetweenYields(_, _, _, _)
IterationsBetweenYields(k, counted, since, most) ==
    IF k > Len(trace)
    THEN [most |-> most, yields_now |-> Len(trace) > 0 /\ since = 0]
    ELSE LET sleeps == ReachedEndOfBody(k) /\ counted % YieldEvery = 0
         IN IterationsBetweenYields(k + 1,
                                    IF ReachedEndOfBody(k) THEN counted + 1 ELSE counted,
                                    IF sleeps THEN 0 ELSE since + 1,
                                    IF since + 1 > most THEN since + 1 ELSE most)

\* C21: the engine yields periodically and only between iterations.  At
\* every point of a run no more than YieldEvery (500 in the code) actions
\* have been iterated between two consecutive sleeps, or between the start of
\* the loop and the first sleep, whatever mix of
\* accounted and skipped actions the history holds; the call sleeps exactly
\* after the iterations counted so; and while it sleeps nothing of the
\* Accountant changes.
C21_YieldsEveryPeriod ==
    /\ [](InRun => IterationsBetweenYields(1, 0, 0, 0).most <= YieldEvery)
    /\ [][/\ (pc = "loop" /\ trace' # trace) =>
                (pc' = "yield" <=> IterationsBetweenYields(1, 0, 0, 0).yields_now')
          /\ pc = "yield" => (self' = self /\ trace' = trace /\ i' = i)]_vars

\* What is left of `held` units after a disposal of `amount`.
Remaining(held, amount) == IF held >= amount THEN held - amount ELSE 0

\* The iteration on actions[i] disposes of `amount` of `asset` as a loan
\* settlement valued at `rate`: the audit record is a loan settlement of the
\* amount at the rate, the gain amount x rate and the fee are charged to
\* settlement_losses and to no trade total, the asset's queue gives up the
\* amount, and no queue of any asset gains a lot.
SettlesLoan(asset, amount, rate) ==
    /\ Last(self'.csvexporter.all_events) =
            AuditRecord("loan_settlement", actions[i].timestamp, amount, rate)
    /\ self'.events.settlement_losses = self.events.settlement_losses + amount * rate
            + get_fee_in_profit_currency(self, actions[i])
    /\ self'.events.general_trade_profit_loss = self.events.general_trade_profit_loss
    /\ self'.events.taxable_trade_profit_loss = self.events.taxable_trade_profit_loss
    /\ LotAmounts(Buys(self'.events, asset)) =
            Remaining(LotAmounts(Buys(self.events, asset)), amount)
    /\ \A a \in Assets :
          /\ Len(Buys(self'.events, a)) <= Len(Buys(self.events, a))
          /\ a # asset => Buys(self'.events, a) = Buys(self.events, a)

\* C22: settlement trades dispose without acquiring.  An accounted
\* SETTLEMENT_SELL disposes of trade.amount of the base asset, and an
\* accounted SETTLEMENT_BUY of trade.rate x trade.amount of BTC valued at
\* BTC's rate at the trade's timestamp (gain = sold amount x BTC rate); both
\* are recorded as loan settlements and neither adds a buy lot to any asset's
\* queue.  A plain SELL disposes of trade.amount of the base asset and leaves
\* the lot of amount x rate of the received asset at the end of its queue.
C22_SettlementsDisposeOnly ==
    [][(Accounts /\ actions[i].kind = "trade") =>
        LET trade == actions[i]
            quote_rate == Rate(trade.quote_asset, self.profit_currency, trade.timestamp)
        IN /\ trade.trade_type = "SETTLEMENT_SELL" =>
                SettlesLoan(trade.base_asset, trade.amount, quote_rate * trade.rate)
           /\ trade.trade_type = "SETTLEMENT_BUY" =>
                SettlesLoan(A_BTC, trade.rate * trade.amount,
                            Rate(A_BTC, self.profit_currency, trade.timestamp))
           /\ trade.trade_type = "SELL" =>
                /\ Last(self'.csvexporter.all_events).type = "sell"
                /\ self'.events.settlement_losses = self.events.settlement_losses
                /\ LotAmounts(Buys(self'.events, trade.base_asset)) =
                        Remaining(LotAmounts(Buys(self.events, trade.base_asset)), trade.amount)
                /\ Buys(self'.events, trade.quote_asset) =
                        Append(Buys(self.events, trade.quote_asset),
                               Lot(trade.amount * trade.rate, quote_rate, trade.timestamp))]_vars

\* A settlement sale, a settlement buy and a plain sale of ETH against BTC
\* after a buy of BTC: the settlements took 1 ETH worth and 2 BTC from the
\* queues and were charged to settlement_losses, and only the plain sale
\* left a second BTC lot.
C22_Witness ==
    /\ pc = "returned"
    /\ Len(trace) = 3
    /\ \A k \in 1..3 : trace[k].path = "dispatched"
    /\ actions[1].trade_type = "BUY" /\ actions[1].base_asset = A_BTC
    /\ actions[2].trade_type = "SETTLEMENT_BUY"
    /\ actions[3].trade_type = "SELL"
    /\ self.events.settlement_losses > 0
    /\ Len(Buys(self.events, A_BTC)) = 2
    /\ Buys(self.events, A_BTC)[1].amount = 1
    /\ Buys(self.events, A_BTC)[2].amount = 2

\* C23: in every state of an Accountant, after construction and during and
\* after any number of runs, started_processing_timestamp is <=
\* currently_processing_timestamp.  Both are -1 before the first run; the
\* call sets both to the timestamp of the first sorted action, 0 for an empty
\* history; and no step of the pass, nor the return, changes
\* started_processing_timestamp.
C23_StartedNeverAfterCurrent ==
    /\ [](/\ self.started_processing_timestamp <= self.currently_processing_timestamp
          /\ runs = 0 => /\ self.started_processing_timestamp = NotProcessing
                         /\ self.currently_processing_timestamp = NotProcessing)
    /\ [][/\ runs' # runs =>
                LET first_ts == IF actions' = <<>> THEN 0 ELSE actions'[1].timestamp
                IN /\ self'.started_processing_timestamp = first_ts
                   /\ self'.currently_processing_timestamp = first_ts
          /\ runs' = runs =>
                self'.started_processing_timestamp = self.started_processing_timestamp]_vars

\* In the second run of an Accountant, whose first run ended at the end_ts
\* cutoff, the pass has skipped an action for a price failure and has moved
\* on from the timestamp it started at.
C23_Witness ==
    /\ runs = 2
    /\ InRun
    /\ Len(reports) = 1
    /\ Cutoff <= Len(actions)
    /\ \E k \in 1..Len(trace) : trace[k].path \in PriceErrors
    /\ self.started_processing_timestamp = 0
    /\ self.currently_processing_timestamp > self.started_processing_timestamp

====
